---- MODULE Spec2Model ----
(***************************************************************************)
(* A model of the netlink attribute (TLV) codec of netlink-packet-route:   *)
(* the link-info sub-attribute families (vxlan, ipvlan, ipvtap,            *)
(* bond-port), the traffic-control option container, the attribute         *)
(* sections of the link / neighbour / neighbour-table messages and the     *)
(* fixed-layout CacheInfo and Icmp6Stats blocks.                           *)
(*                                                                         *)
(* Bytes are naturals 0..255, buffers are sequences of bytes (the Rust     *)
(* index i is the TLA+ index i+1).  NativeEndian is little-endian, the     *)
(* byte order of the targets the crate is built for.  An integer of 8 or   *)
(* 16 bits is a number; an integer of 32 or 64 bits is its numeral in base *)
(* 256, most significant digit first (for i32 and i64 the numeral of the   *)
(* two's complement image), so that every value of the width is at hand.   *)
(***************************************************************************)
EXTENDS Integers, Sequences, FiniteSets, TLC

VARIABLES
    pc,       \* position of the harness: which call has returned
    family,   \* the context: link-info kind, tc kind string, message type or fixed block
    val,      \* the attribute value handed to emission
    rec,      \* the bytes handed to the parser (a record, a container or a section)
    res,      \* what the parser returned
    out,      \* the bytes the emitter wrote
    pieces,   \* how the input section was put together, record by record
    logged,   \* the records handed to the process-wide logger (log::warn!), in order
    cursor,   \* the position of the iterator that is being stepped
    max_level \* log::max_level(), the level filter of the process

vars == <<pc, family, val, rec, res, out, pieces, logged, cursor, max_level>>

(***************************************************************************)
(* Byte-level helpers (byteorder crate, core slice operations).            *)
(***************************************************************************)
U8 == 0..255

Pow2(n) == 2^n

\* BigEndian::read_u16 / NativeEndian::read_u16 on a 2-byte slice
ReadU16LE(b) == b[1] + 256 * b[2]
ReadU16BE(b) == 256 * b[1] + b[2]
\* NativeEndian::read_u32 / read_i32 / read_i64: the numeral of the integer
\* whose least significant byte comes first in b
ReadNumLE(b) == [i \in 1..Len(b) |-> b[Len(b) + 1 - i]]

BytesLE(x, n) == [i \in 1..n |-> (x \div Pow2(8 * (i - 1))) % 256]
BytesBE(x, n) == [i \in 1..n |-> (x \div Pow2(8 * (n - i))) % 256]

\* the numeral of n digits of a number below 2^31
Num(x, n) == BytesBE(x, n)

Zeros(n) == [i \in 1..n |-> 0]

\* buffer[from..] with bytes src stored at offset off (0-based)
Overwrite(buf, off, src) ==
    [i \in 1..Len(buf) |->
        IF i > off /\ i <= off + Len(src) THEN src[i - off] ELSE buf[i]]

\* The outcome of an operation that writes into a caller's buffer: the buffer
\* afterwards, or a panic (an index out of range, a length mismatch).
Written(buf) == [panic |-> FALSE, buf |-> buf]
Panicked(buf) == [panic |-> TRUE, buf |-> buf]

\* NativeEndian::write_u16 / write_u32, BigEndian::write_u16: panic when the
\* slice is shorter than the integer, write its first bytes otherwise.
WriteLE(buf, off, x, n) ==
    IF Len(buf) < off + n THEN Panicked(buf)
    ELSE Written(Overwrite(buf, off, BytesLE(x, n)))

WriteBE(buf, off, x, n) ==
    IF Len(buf) < off + n THEN Panicked(buf)
    ELSE Written(Overwrite(buf, off, BytesBE(x, n)))

\* NativeEndian::write_u32 / write_i32 / write_i64 of a numeral
WriteNumLE(buf, off, num) ==
    IF Len(buf) < off + Len(num) THEN Panicked(buf)
    ELSE Written(Overwrite(buf, off, ReadNumLE(num)))

\* buffer[0] = x
WriteByte(buf, x) ==
    IF Len(buf) < 1 THEN Panicked(buf) ELSE Written(Overwrite(buf, 0, <<x>>))

\* <[u8]>::copy_from_slice: panics unless both slices have the same length
CopyFromSlice(buf, src) ==
    IF Len(buf) # Len(src) THEN Panicked(buf) ELSE Written(src)

(***************************************************************************)
(* Results of a parse: Ok(value) or Err(DecodeError).                      *)
(***************************************************************************)
Nil == [tag |-> "Nil", v |-> 0]
Ok(x) == [ok |-> TRUE, val |-> x]
Err == [ok |-> FALSE, val |-> Nil]

\* netlink_packet_utils::parsers: each insists on the exact width
parse_u8(p) == IF Len(p) # 1 THEN Err ELSE Ok(p[1])
parse_u16(p) == IF Len(p) # 2 THEN Err ELSE Ok(ReadU16LE(p))
parse_u16_be(p) == IF Len(p) # 2 THEN Err ELSE Ok(ReadU16BE(p))
parse_u32(p) == IF Len(p) # 4 THEN Err ELSE Ok(ReadNumLE(p))
parse_i32(p) == IF Len(p) # 4 THEN Err ELSE Ok(ReadNumLE(p))

\* `Variant(parser(payload)?)`
Wrap(tag, r) == IF r.ok THEN Ok([tag |-> tag, v |-> r.val]) ELSE Err
\* WrapBool with the comparison off by one: `parse_u8(payload)? > 1`
WrapBool_gt1(tag, r) == IF r.ok THEN Ok([tag |-> tag, v |-> (r.val > 1)]) ELSE Err

\* WrapBool that takes only the byte 1 for true: `parse_u8(payload)? == 1`
WrapBool_eq1(tag, r) == IF r.ok THEN Ok([tag |-> tag, v |-> (r.val = 1)]) ELSE Err

\* `Variant(parse_u8(payload)? > 0)`
WrapBool(tag, r) == IF r.ok THEN Ok([tag |-> tag, v |-> (r.val > 0)]) ELSE Err

(***************************************************************************)
(* NlaBuffer: the view of one record.  nla_len is the u16 at bytes 0..2,   *)
(* nla_type the u16 at bytes 2..4, the value follows.                      *)
(***************************************************************************)
NLA_HEADER_SIZE == 4
NLA_ALIGNTO == 4
NLA_F_NESTED == 32768
NLA_F_NET_BYTEORDER == 16384
NLA_TYPE_MASK == NLA_F_NET_BYTEORDER - 1

nla_align(n) == ((n + NLA_ALIGNTO - 1) \div NLA_ALIGNTO) * NLA_ALIGNTO

NlaBuffer_length(buf) == ReadU16LE(SubSeq(buf, 1, 2))
NlaBuffer_raw_type(buf) == ReadU16LE(SubSeq(buf, 3, 4))
NlaBuffer_kind(buf) == NlaBuffer_raw_type(buf) % NLA_F_NET_BYTEORDER
NlaBuffer_nested_flag(buf) == (NlaBuffer_raw_type(buf) \div NLA_F_NESTED) % 2 = 1
NlaBuffer_network_byte_order_flag(buf) ==
    (NlaBuffer_raw_type(buf) \div NLA_F_NET_BYTEORDER) % 2 = 1
NlaBuffer_value(buf) == SubSeq(buf, NLA_HEADER_SIZE + 1, NlaBuffer_length(buf))

\* NlaBuffer::new_checked
NlaBuffer_check(buf) ==
    /\ Len(buf) >= NLA_HEADER_SIZE
    /\ Len(buf) >= NlaBuffer_length(buf)
    /\ NlaBuffer_length(buf) >= NLA_HEADER_SIZE

(***************************************************************************)
(* DefaultNla: the opaque attribute, a kind (with its flag bits) and the   *)
(* value bytes.                                                            *)
(***************************************************************************)
DefaultNla_parse(buf) ==
    LET k0 == NlaBuffer_kind(buf)
        k1 == IF NlaBuffer_network_byte_order_flag(buf)
              THEN k0 + NLA_F_NET_BYTEORDER ELSE k0
        k2 == IF NlaBuffer_nested_flag(buf) THEN k1 + NLA_F_NESTED ELSE k1
    IN  Ok([kind |-> k2, value |-> NlaBuffer_value(buf)])

DefaultNla_value_len(nla) == Len(nla.value)
DefaultNla_kind(nla) == nla.kind
DefaultNla_emit_value(nla, buffer) == CopyFromSlice(buffer, nla.value)

Other(nla) == [tag |-> "Other", v |-> nla]
WrapOther(r) == IF r.ok THEN Ok(Other(r.val)) ELSE Err

(***************************************************************************)
(* link/link_info/vxlan.rs                                                 *)
(***************************************************************************)
IFLA_VXLAN_ID == 1
IFLA_VXLAN_GROUP == 2
IFLA_VXLAN_LINK == 3
IFLA_VXLAN_LOCAL == 4
IFLA_VXLAN_TTL == 5
IFLA_VXLAN_TOS == 6
IFLA_VXLAN_LEARNING == 7
IFLA_VXLAN_AGEING == 8
IFLA_VXLAN_LIMIT == 9
IFLA_VXLAN_PORT_RANGE == 10
IFLA_VXLAN_PROXY == 11
IFLA_VXLAN_RSC == 12
IFLA_VXLAN_L2MISS == 13
IFLA_VXLAN_L3MISS == 14
IFLA_VXLAN_PORT == 15
IFLA_VXLAN_GROUP6 == 16
IFLA_VXLAN_LOCAL6 == 17
IFLA_VXLAN_UDP_CSUM == 18
IFLA_VXLAN_UDP_ZERO_CSUM6_TX == 19
IFLA_VXLAN_UDP_ZERO_CSUM6_RX == 20
IFLA_VXLAN_REMCSUM_TX == 21
IFLA_VXLAN_REMCSUM_RX == 22
IFLA_VXLAN_GBP == 23
IFLA_VXLAN_REMCSUM_NOPARTIAL == 24
IFLA_VXLAN_COLLECT_METADATA == 25
IFLA_VXLAN_LABEL == 26
IFLA_VXLAN_GPE == 27
IFLA_VXLAN_TTL_INHERIT == 28
IFLA_VXLAN_DF == 29
IFLA_VXLAN_VNIFILTER == 30
IFLA_VXLAN_LOCALBYPASS == 31

\* The variants of InfoVxlan by the shape of their payload.
VxlanU32Tags == {"Id", "Label", "Link", "Ageing", "Limit"}
VxlanU8Tags == {"Tos", "Ttl", "Df"}
VxlanBoolTags ==
    {"Learning", "Proxy", "Rsc", "L2Miss", "L3Miss", "CollectMetadata", "UDPCsum",
     "UDPZeroCsumTX", "UDPZeroCsumRX", "RemCsumTX", "RemCsumRX", "TtlInherit",
     "Vnifilter", "Localbypass"}
VxlanPresenceTags == {"Gbp", "Gpe", "RemCsumNoPartial"}
VxlanV4Tags == {"Group", "Local"}
VxlanV6Tags == {"Group6", "Local6"}

\* value_len that counts the booleans as 4-byte integers
InfoVxlan_value_len_bool4(x) ==
    CASE x.tag \in VxlanU8Tags -> 1
      [] x.tag \in VxlanPresenceTags -> 0
      [] x.tag = "Port" -> 2
      [] x.tag \in VxlanU32Tags \cup VxlanBoolTags \cup {"PortRange"} \cup VxlanV4Tags -> 4
      [] x.tag \in VxlanV6Tags -> 16
      [] x.tag = "Other" -> DefaultNla_value_len(x.v)

\* value_len that counts a flag byte for the presence-only variants
InfoVxlan_value_len_presence1(x) ==
    CASE x.tag \in VxlanU8Tags \cup VxlanBoolTags \cup VxlanPresenceTags -> 1
      [] x.tag = "Port" -> 2
      [] x.tag \in VxlanU32Tags \cup {"PortRange"} \cup VxlanV4Tags -> 4
      [] x.tag \in VxlanV6Tags -> 16
      [] x.tag = "Other" -> DefaultNla_value_len(x.v)

InfoVxlan_value_len(x) ==
    CASE x.tag \in VxlanU8Tags \cup VxlanBoolTags -> 1
      [] x.tag \in VxlanPresenceTags -> 0
      [] x.tag = "Port" -> 2
      [] x.tag \in VxlanU32Tags \cup {"PortRange"} \cup VxlanV4Tags -> 4
      [] x.tag \in VxlanV6Tags -> 16
      [] x.tag = "Other" -> DefaultNla_value_len(x.v)

InfoVxlan_emit_value(x, buffer) ==
    CASE x.tag \in VxlanU32Tags -> WriteNumLE(buffer, 0, x.v)
      [] x.tag \in VxlanPresenceTags -> Written(buffer)
      [] x.tag \in VxlanU8Tags -> WriteByte(buffer, x.v)
      [] x.tag \in VxlanBoolTags -> WriteByte(buffer, IF x.v THEN 1 ELSE 0)
      [] x.tag \in VxlanV4Tags \cup VxlanV6Tags -> CopyFromSlice(buffer, x.v)
      [] x.tag = "Port" -> WriteBE(buffer, 0, x.v, 2)
      [] x.tag = "PortRange" ->
            LET lo == WriteBE(buffer, 0, x.v[1], 2)
            IN  IF lo.panic \/ Len(buffer) < 2 THEN Panicked(lo.buf)
                ELSE WriteBE(lo.buf, 2, x.v[2], 2)
      [] x.tag = "Other" -> DefaultNla_emit_value(x.v, buffer)

InfoVxlan_kind(x) ==
    CASE x.tag = "Id" -> IFLA_VXLAN_ID
      [] x.tag = "Group" -> IFLA_VXLAN_GROUP
      [] x.tag = "Group6" -> IFLA_VXLAN_GROUP6
      [] x.tag = "Link" -> IFLA_VXLAN_LINK
      [] x.tag = "Local" -> IFLA_VXLAN_LOCAL
      [] x.tag = "Local6" -> IFLA_VXLAN_LOCAL6
      [] x.tag = "Tos" -> IFLA_VXLAN_TOS
      [] x.tag = "Ttl" -> IFLA_VXLAN_TTL
      [] x.tag = "Label" -> IFLA_VXLAN_LABEL
      [] x.tag = "Learning" -> IFLA_VXLAN_LEARNING
      [] x.tag = "Ageing" -> IFLA_VXLAN_AGEING
      [] x.tag = "Limit" -> IFLA_VXLAN_LIMIT
      [] x.tag = "PortRange" -> IFLA_VXLAN_PORT_RANGE
      [] x.tag = "Proxy" -> IFLA_VXLAN_PROXY
      [] x.tag = "Rsc" -> IFLA_VXLAN_RSC
      [] x.tag = "L2Miss" -> IFLA_VXLAN_L2MISS
      [] x.tag = "L3Miss" -> IFLA_VXLAN_L3MISS
      [] x.tag = "CollectMetadata" -> IFLA_VXLAN_COLLECT_METADATA
      [] x.tag = "Port" -> IFLA_VXLAN_PORT
      [] x.tag = "UDPCsum" -> IFLA_VXLAN_UDP_CSUM
      [] x.tag = "UDPZeroCsumTX" -> IFLA_VXLAN_UDP_ZERO_CSUM6_TX
      [] x.tag = "UDPZeroCsumRX" -> IFLA_VXLAN_UDP_ZERO_CSUM6_RX
      [] x.tag = "RemCsumTX" -> IFLA_VXLAN_REMCSUM_TX
      [] x.tag = "RemCsumRX" -> IFLA_VXLAN_REMCSUM_RX
      [] x.tag = "Gbp" -> IFLA_VXLAN_GBP
      [] x.tag = "Gpe" -> IFLA_VXLAN_GPE
      [] x.tag = "RemCsumNoPartial" -> IFLA_VXLAN_REMCSUM_NOPARTIAL
      [] x.tag = "TtlInherit" -> IFLA_VXLAN_TTL_INHERIT
      [] x.tag = "Df" -> IFLA_VXLAN_DF
      [] x.tag = "Vnifilter" -> IFLA_VXLAN_VNIFILTER
      [] x.tag = "Localbypass" -> IFLA_VXLAN_LOCALBYPASS
      [] x.tag = "Other" -> DefaultNla_kind(x.v)

\* the `if payload.len() == N { copy } else { return Err }` arms
\* the address arms with `>=` for `==`: a longer payload is cut to the address
ParseAddr_truncating(tag, payload, n) ==
    IF Len(payload) >= n THEN Ok([tag |-> tag, v |-> SubSeq(payload, 1, n)]) ELSE Err

ParseAddr(tag, payload, n) ==
    IF Len(payload) = n THEN Ok([tag |-> tag, v |-> SubSeq(payload, 1, n)]) ELSE Err

InfoVxlan_parse(buf) ==
    LET payload == NlaBuffer_value(buf)
        k == NlaBuffer_kind(buf)
    IN  CASE k = IFLA_VXLAN_ID -> Wrap("Id", parse_u32(payload))
          [] k = IFLA_VXLAN_GROUP -> ParseAddr("Group", payload, 4)
          [] k = IFLA_VXLAN_LOCAL -> ParseAddr("Local", payload, 4)
          [] k = IFLA_VXLAN_GROUP6 -> ParseAddr("Group6", payload, 16)
          [] k = IFLA_VXLAN_LOCAL6 -> ParseAddr("Local6", payload, 16)
          [] k = IFLA_VXLAN_LINK -> Wrap("Link", parse_u32(payload))
          [] k = IFLA_VXLAN_TOS -> Wrap("Tos", parse_u8(payload))
          [] k = IFLA_VXLAN_TTL -> Wrap("Ttl", parse_u8(payload))
          [] k = IFLA_VXLAN_LABEL -> Wrap("Label", parse_u32(payload))
          [] k = IFLA_VXLAN_LEARNING -> WrapBool("Learning", parse_u8(payload))
          [] k = IFLA_VXLAN_AGEING -> Wrap("Ageing", parse_u32(payload))
          [] k = IFLA_VXLAN_LIMIT -> Wrap("Limit", parse_u32(payload))
          [] k = IFLA_VXLAN_PROXY -> WrapBool("Proxy", parse_u8(payload))
          [] k = IFLA_VXLAN_RSC -> WrapBool("Rsc", parse_u8(payload))
          [] k = IFLA_VXLAN_L2MISS -> WrapBool("L2Miss", parse_u8(payload))
          [] k = IFLA_VXLAN_L3MISS -> WrapBool("L3Miss", parse_u8(payload))
          [] k = IFLA_VXLAN_COLLECT_METADATA ->
                WrapBool("CollectMetadata", parse_u8(payload))
          [] k = IFLA_VXLAN_PORT_RANGE ->
                IF Len(payload) # 4 THEN Err
                ELSE LET low == parse_u16_be(SubSeq(payload, 1, 2))
                         high == parse_u16_be(SubSeq(payload, 3, Len(payload)))
                     IN  IF low.ok /\ high.ok
                         THEN Ok([tag |-> "PortRange", v |-> <<low.val, high.val>>])
                         ELSE Err
          [] k = IFLA_VXLAN_PORT -> Wrap("Port", parse_u16_be(payload))
          [] k = IFLA_VXLAN_UDP_CSUM -> WrapBool("UDPCsum", parse_u8(payload))
          [] k = IFLA_VXLAN_UDP_ZERO_CSUM6_TX ->
                WrapBool("UDPZeroCsumTX", parse_u8(payload))
          [] k = IFLA_VXLAN_UDP_ZERO_CSUM6_RX ->
                WrapBool("UDPZeroCsumRX", parse_u8(payload))
          [] k = IFLA_VXLAN_REMCSUM_TX -> WrapBool("RemCsumTX", parse_u8(payload))
          [] k = IFLA_VXLAN_REMCSUM_RX -> WrapBool("RemCsumRX", parse_u8(payload))
          [] k = IFLA_VXLAN_DF -> Wrap("Df", parse_u8(payload))
          [] k = IFLA_VXLAN_GBP -> Ok([tag |-> "Gbp", v |-> TRUE])
          [] k = IFLA_VXLAN_GPE -> Ok([tag |-> "Gpe", v |-> TRUE])
          [] k = IFLA_VXLAN_REMCSUM_NOPARTIAL ->
                Ok([tag |-> "RemCsumNoPartial", v |-> TRUE])
          [] k = IFLA_VXLAN_TTL_INHERIT -> WrapBool("TtlInherit", parse_u8(payload))
          [] k = IFLA_VXLAN_VNIFILTER -> WrapBool("Vnifilter", parse_u8(payload))
          [] k = IFLA_VXLAN_LOCALBYPASS -> WrapBool("Localbypass", parse_u8(payload))
          [] OTHER -> WrapOther(DefaultNla_parse(buf))

(***************************************************************************)
(* link/link_info/bond_port.rs                                             *)
(***************************************************************************)
IFLA_BOND_PORT_STATE_ACTIVE == 0
IFLA_BOND_PORT_STATE_BACKUP == 1

IFLA_BOND_PORT_MII_STATUS_UP == 0
IFLA_BOND_PORT_MII_STATUS_GOING_DOWN == 1
IFLA_BOND_PORT_MII_STATUS_DOWN == 2
IFLA_BOND_PORT_MII_STATUS_GOING_BACK == 3

IFLA_BOND_PORT_STATE == 1
IFLA_BOND_PORT_MII_STATUS == 2
IFLA_BOND_PORT_LINK_FAILURE_COUNT == 3
IFLA_BOND_PORT_PERM_HWADDR == 4
IFLA_BOND_PORT_QUEUE_ID == 5
IFLA_BOND_PORT_PRIO == 9

\* A bounded enum: a unit variant, or Other(raw).  A unit variant carries no
\* payload; its `other` field is 0.
Named(name) == [variant |-> name, other |-> 0]
OtherCode(x) == [variant |-> "Other", other |-> x]

\* impl From<u8> for BondPortState
BondPortState_from(value) ==
    CASE value = IFLA_BOND_PORT_STATE_ACTIVE -> Named("Active")
      [] value = IFLA_BOND_PORT_STATE_BACKUP -> Named("Backup")
      [] OTHER -> OtherCode(value)

\* impl From<BondPortState> for u8
BondPortState_into(value) ==
    CASE value.variant = "Active" -> IFLA_BOND_PORT_STATE_ACTIVE
      [] value.variant = "Backup" -> IFLA_BOND_PORT_STATE_BACKUP
      [] value.variant = "Other" -> value.other

\* impl From<u8> for MiiStatus
MiiStatus_from(value) ==
    CASE value = IFLA_BOND_PORT_MII_STATUS_UP -> Named("Up")
      [] value = IFLA_BOND_PORT_MII_STATUS_GOING_DOWN -> Named("GoingDown")
      [] value = IFLA_BOND_PORT_MII_STATUS_DOWN -> Named("Down")
      [] value = IFLA_BOND_PORT_MII_STATUS_GOING_BACK -> Named("GoingBack")
      [] OTHER -> OtherCode(value)

\* impl From<MiiStatus> for u8
MiiStatus_into(value) ==
    CASE value.variant = "Up" -> IFLA_BOND_PORT_MII_STATUS_UP
      [] value.variant = "GoingDown" -> IFLA_BOND_PORT_MII_STATUS_GOING_DOWN
      [] value.variant = "Down" -> IFLA_BOND_PORT_MII_STATUS_DOWN
      [] value.variant = "GoingBack" -> IFLA_BOND_PORT_MII_STATUS_GOING_BACK
      [] value.variant = "Other" -> value.other

\* value_len that takes a hardware address to be 6 bytes long
InfoBondPort_value_len_hw6(x) ==
    CASE x.tag = "QueueId" -> 2
      [] x.tag \in {"LinkFailureCount", "Prio"} -> 4
      [] x.tag = "PermHwaddr" -> 6
      [] x.tag = "MiiStatus" -> 1
      [] x.tag = "BondPortState" -> 1
      [] x.tag = "Other" -> DefaultNla_value_len(x.v)

InfoBondPort_value_len(x) ==
    CASE x.tag = "QueueId" -> 2
      [] x.tag \in {"LinkFailureCount", "Prio"} -> 4
      [] x.tag = "PermHwaddr" -> Len(x.v)
      [] x.tag = "MiiStatus" -> 1
      [] x.tag = "BondPortState" -> 1
      [] x.tag = "Other" -> DefaultNla_value_len(x.v)

InfoBondPort_emit_value(x, buffer) ==
    CASE x.tag = "QueueId" -> WriteLE(buffer, 0, x.v, 2)
      [] x.tag = "PermHwaddr" -> CopyFromSlice(buffer, x.v)
      [] x.tag = "Prio" -> WriteNumLE(buffer, 0, x.v)
      [] x.tag = "LinkFailureCount" -> WriteNumLE(buffer, 0, x.v)
      [] x.tag = "MiiStatus" -> WriteByte(buffer, MiiStatus_into(x.v))
      [] x.tag = "BondPortState" -> WriteByte(buffer, BondPortState_into(x.v))
      [] x.tag = "Other" -> DefaultNla_emit_value(x.v, buffer)

InfoBondPort_kind(x) ==
    CASE x.tag = "LinkFailureCount" -> IFLA_BOND_PORT_LINK_FAILURE_COUNT
      [] x.tag = "MiiStatus" -> IFLA_BOND_PORT_MII_STATUS
      [] x.tag = "PermHwaddr" -> IFLA_BOND_PORT_PERM_HWADDR
      [] x.tag = "Prio" -> IFLA_BOND_PORT_PRIO
      [] x.tag = "QueueId" -> IFLA_BOND_PORT_QUEUE_ID
      [] x.tag = "BondPortState" -> IFLA_BOND_PORT_STATE
      [] x.tag = "Other" -> DefaultNla_kind(x.v)

\* `parse_u8(payload)?.into()`
Into_MiiStatus(r) == IF r.ok THEN Ok(MiiStatus_from(r.val)) ELSE Err
Into_BondPortState(r) == IF r.ok THEN Ok(BondPortState_from(r.val)) ELSE Err

InfoBondPort_parse(buf) ==
    LET payload == NlaBuffer_value(buf)
        k == NlaBuffer_kind(buf)
    IN  CASE k = IFLA_BOND_PORT_LINK_FAILURE_COUNT ->
                Wrap("LinkFailureCount", parse_u32(payload))
          [] k = IFLA_BOND_PORT_MII_STATUS ->
                Wrap("MiiStatus", Into_MiiStatus(parse_u8(payload)))
          [] k = IFLA_BOND_PORT_PERM_HWADDR -> Ok([tag |-> "PermHwaddr", v |-> payload])
          [] k = IFLA_BOND_PORT_PRIO -> Wrap("Prio", parse_i32(payload))
          [] k = IFLA_BOND_PORT_QUEUE_ID -> Wrap("QueueId", parse_u16(payload))
          [] k = IFLA_BOND_PORT_STATE ->
                Wrap("BondPortState", Into_BondPortState(parse_u8(payload)))
          [] OTHER -> WrapOther(DefaultNla_parse(buf))

(***************************************************************************)
(* link/link_info/ipvlan.rs                                                *)
(***************************************************************************)
IFLA_IPVLAN_MODE == 1
IFLA_IPVLAN_FLAGS == 2

IPVLAN_MODE_L2 == 0
IPVLAN_MODE_L3 == 1
IPVLAN_MODE_L3S == 2

IPVLAN_F_PRIVATE == 1
IPVLAN_F_VEPA == 2

\* IpVlanMode::from with the L3S arm missing
IpVlanMode_from_no_l3s(d) ==
    CASE d = IPVLAN_MODE_L2 -> Named("L2")
      [] d = IPVLAN_MODE_L3 -> Named("L3")
      [] OTHER -> OtherCode(d)

\* impl From<u16> for IpVlanMode: the value it returns
IpVlanMode_from(d) ==
    CASE d = IPVLAN_MODE_L2 -> Named("L2")
      [] d = IPVLAN_MODE_L3 -> Named("L3")
      [] d = IPVLAN_MODE_L3S -> Named("L3S")
      [] OTHER -> OtherCode(d)

\* log::LevelFilter as usize, and log::Level::Warn
LevelFilter_Off == 0
LevelFilter_Trace == 5
Level_Warn == 2
LevelFilters == LevelFilter_Off..LevelFilter_Trace

\* log::warn!: `if lvl <= log::max_level()` the record goes to the logger
log_enabled(lvl, max) == lvl <= max

\* impl From<u16> for IpVlanMode: what it hands to the logger, the
\* `log::warn!("Unknown IP VLAN mode {d}")` of its last arm, under the level
\* filter max
IpVlanMode_from_logs(d, max) ==
    IF d \in {IPVLAN_MODE_L2, IPVLAN_MODE_L3, IPVLAN_MODE_L3S} THEN <<>>
    ELSE IF log_enabled(Level_Warn, max)
         THEN <<[level |-> "warn", text |-> "Unknown IP VLAN mode", d |-> d]>>
         ELSE <<>>

\* impl From<IpVlanMode> for u16
IpVlanMode_into(v) ==
    CASE v.variant = "L2" -> IPVLAN_MODE_L2
      [] v.variant = "L3" -> IPVLAN_MODE_L3
      [] v.variant = "L3S" -> IPVLAN_MODE_L3S
      [] v.variant = "Other" -> v.other

\* from_bits_truncate in place of from_bits_retain: only the named bits survive
IpVlanFlags_from_bits_truncate(bits) == [bits |-> bits % (2 * IPVLAN_F_VEPA)]

\* bitflags! IpVlanFlags: u16, with `const _ = !0`: every bit is a known bit,
\* so from_bits_retain keeps, and bits() returns, the whole integer.
IpVlanFlags_from_bits_retain(bits) == [bits |-> bits]
IpVlanFlags_bits(f) == f.bits

\* the `&` of two unsigned integers
RECURSIVE BitAnd(_, _)
BitAnd(a, b) ==
    IF a = 0 \/ b = 0 THEN 0
    ELSE (a % 2) * (b % 2) + 2 * BitAnd(a \div 2, b \div 2)

\* contains(other): self.bits() & other.bits() == other.bits()
IpVlanFlags_contains(f, flag) == BitAnd(f.bits, flag) = flag

\* `parse_u16(payload)?.into()` and `IpVlanFlags::from_bits_retain(parse_u16(payload)?)`
Into_IpVlanMode(r) == IF r.ok THEN Ok(IpVlanMode_from(r.val)) ELSE Err
Into_IpVlanFlags(r) == IF r.ok THEN Ok(IpVlanFlags_from_bits_retain(r.val)) ELSE Err

InfoIpVlan_value_len(x) ==
    CASE x.tag \in {"Mode", "Flags"} -> 2
      [] x.tag = "Other" -> DefaultNla_value_len(x.v)

\* InfoIpVlan::emit_value whose Other arm writes nothing
InfoIpVlan_emit_value_skip(x, buffer) ==
    CASE x.tag = "Mode" -> WriteLE(buffer, 0, IpVlanMode_into(x.v), 2)
      [] x.tag = "Flags" -> WriteLE(buffer, 0, IpVlanFlags_bits(x.v), 2)
      [] x.tag = "Other" -> Written(buffer)

InfoIpVlan_emit_value(x, buffer) ==
    CASE x.tag = "Mode" -> WriteLE(buffer, 0, IpVlanMode_into(x.v), 2)
      [] x.tag = "Flags" -> WriteLE(buffer, 0, IpVlanFlags_bits(x.v), 2)
      [] x.tag = "Other" -> DefaultNla_emit_value(x.v, buffer)

InfoIpVlan_kind(x) ==
    CASE x.tag = "Mode" -> IFLA_IPVLAN_MODE
      [] x.tag = "Flags" -> IFLA_IPVLAN_FLAGS
      [] x.tag = "Other" -> DefaultNla_kind(x.v)

InfoIpVlan_parse(buf) ==
    LET payload == NlaBuffer_value(buf)
        k == NlaBuffer_kind(buf)
    IN  CASE k = IFLA_IPVLAN_MODE -> Wrap("Mode", Into_IpVlanMode(parse_u16(payload)))
          [] k = IFLA_IPVLAN_FLAGS ->
                Wrap("Flags", Into_IpVlanFlags(parse_u16(payload)))
          [] OTHER -> WrapOther(DefaultNla_parse(buf))

\* what InfoIpVlan::parse and InfoIpVtap::parse hand to the logger
InfoIpVlan_parse_logs(buf, max) ==
    LET r == parse_u16(NlaBuffer_value(buf))
    IN  IF NlaBuffer_kind(buf) = IFLA_IPVLAN_MODE /\ r.ok
        THEN IpVlanMode_from_logs(r.val, max) ELSE <<>>

\* InfoIpVtap: the same code over IpVtapMode = IpVlanMode, IpVtapFlags = IpVlanFlags
InfoIpVtap_value_len(x) ==
    CASE x.tag \in {"Mode", "Flags"} -> 2
      [] x.tag = "Other" -> DefaultNla_value_len(x.v)

InfoIpVtap_emit_value(x, buffer) ==
    CASE x.tag = "Mode" -> WriteLE(buffer, 0, IpVlanMode_into(x.v), 2)
      [] x.tag = "Flags" -> WriteLE(buffer, 0, IpVlanFlags_bits(x.v), 2)
      [] x.tag = "Other" -> DefaultNla_emit_value(x.v, buffer)

InfoIpVtap_kind(x) ==
    CASE x.tag = "Mode" -> IFLA_IPVLAN_MODE
      [] x.tag = "Flags" -> IFLA_IPVLAN_FLAGS
      [] x.tag = "Other" -> DefaultNla_kind(x.v)

InfoIpVtap_parse(buf) ==
    LET payload == NlaBuffer_value(buf)
        k == NlaBuffer_kind(buf)
    IN  CASE k = IFLA_IPVLAN_MODE -> Wrap("Mode", Into_IpVlanMode(parse_u16(payload)))
          [] k = IFLA_IPVLAN_FLAGS ->
                Wrap("Flags", Into_IpVlanFlags(parse_u16(payload)))
          [] OTHER -> WrapOther(DefaultNla_parse(buf))

(***************************************************************************)
(* The attribute types whose code sits beside the analysed files: the      *)
(* per-driver traffic-control options and the attributes of the link,      *)
(* neighbour and neighbour-table messages.  Each is a family of fixed-     *)
(* width fields with an Other(DefaultNla) fallback; one u32 field stands   *)
(* for the fixed-width ones.                                               *)
(***************************************************************************)
TCA_OPTIONS == 2
TCA_CLASSID == 1          \* TCA_U32_CLASSID, TCA_MATCHALL_CLASSID, TCA_FLOWER_CLASSID
TCA_FQ_CODEL_TARGET == 1
IFLA_MTU == 4
NDA_PROBES == 4
NDTA_THRESH1 == 2

LINK_HEADER_LEN == 16
NEIGHBOUR_HEADER_LEN == 12
NEIGHBOUR_TABLE_HEADER_LEN == 4

\* a family with the u32 field `tag` at kind code k and Other elsewhere
FieldFamily_parse(buf, k, tag) ==
    IF NlaBuffer_kind(buf) = k THEN Wrap(tag, parse_u32(NlaBuffer_value(buf)))
    ELSE WrapOther(DefaultNla_parse(buf))

FieldFamily_value_len(x) == IF x.tag = "Other" THEN DefaultNla_value_len(x.v) ELSE 4

FieldFamily_kind(x, k) == IF x.tag = "Other" THEN DefaultNla_kind(x.v) ELSE k

FieldFamily_emit_value(x, buffer) ==
    IF x.tag = "Other" THEN DefaultNla_emit_value(x.v, buffer)
    ELSE WriteNumLE(buffer, 0, x.v)

TcFilterU32Option_parse(buf) == FieldFamily_parse(buf, TCA_CLASSID, "ClassId")
TcFilterMatchAllOption_parse(buf) == FieldFamily_parse(buf, TCA_CLASSID, "ClassId")
TcFilterFlowerOption_parse(buf) == FieldFamily_parse(buf, TCA_CLASSID, "ClassId")
TcQdiscFqCodelOption_parse(buf) == FieldFamily_parse(buf, TCA_FQ_CODEL_TARGET, "Target")
\* the ingress qdisc has no option of its own
TcQdiscIngressOption_parse(buf) == WrapOther(DefaultNla_parse(buf))

LinkAttribute_parse_with_param(buf, af) == FieldFamily_parse(buf, IFLA_MTU, "Mtu")
NeighbourAttribute_parse_with_param(buf, af) == FieldFamily_parse(buf, NDA_PROBES, "Probes")
NeighbourTableAttribute_parse(buf) == FieldFamily_parse(buf, NDTA_THRESH1, "Threshold1")

\* the kind code of the u32 field of a family
FieldKind(f) ==
    CASE f = "link" -> IFLA_MTU
      [] f = "neighbour" -> NDA_PROBES
      [] f = "neighbour_table" -> NDTA_THRESH1
      [] f = "fq_codel" -> TCA_FQ_CODEL_TARGET
      [] OTHER -> TCA_CLASSID

(***************************************************************************)
(* tc/options.rs                                                           *)
(***************************************************************************)
TcFilterU32_KIND == "u32"
TcFilterMatchAll_KIND == "matchall"
TcFilterFlower_KIND == "flower"
TcQdiscIngress_KIND == "ingress"
TcQdiscFqCodel_KIND == "fq_codel"

\* TcOption::value_len / kind / emit_value: each arm hands over to the option it wraps
TcOption_value_len(x) ==
    IF x.tag = "Other" THEN DefaultNla_value_len(x.v) ELSE FieldFamily_value_len(x.v)

TcOption_emit_value(x, buffer) ==
    IF x.tag = "Other" THEN DefaultNla_emit_value(x.v, buffer)
    ELSE FieldFamily_emit_value(x.v, buffer)

TcOption_kind(x) ==
    CASE x.tag = "Other" -> DefaultNla_kind(x.v)
      [] x.tag = "FqCodel" -> FieldFamily_kind(x.v, TCA_FQ_CODEL_TARGET)
      [] OTHER -> FieldFamily_kind(x.v, TCA_CLASSID)

\* parse_with_param without the matchall arm
TcOption_parse_with_param_no_matchall(buf, kind) ==
    CASE kind = TcQdiscIngress_KIND -> Wrap("Ingress", TcQdiscIngressOption_parse(buf))
      [] kind = TcFilterFlower_KIND -> Wrap("Flower", TcFilterFlowerOption_parse(buf))
      [] kind = TcQdiscFqCodel_KIND -> Wrap("FqCodel", TcQdiscFqCodelOption_parse(buf))
      [] kind = TcFilterU32_KIND -> Wrap("U32", TcFilterU32Option_parse(buf))
      [] OTHER -> WrapOther(DefaultNla_parse(buf))

TcOption_parse_with_param(buf, kind) ==
    CASE kind = TcQdiscIngress_KIND -> Wrap("Ingress", TcQdiscIngressOption_parse(buf))
      [] kind = TcFilterFlower_KIND -> Wrap("Flower", TcFilterFlowerOption_parse(buf))
      [] kind = TcQdiscFqCodel_KIND -> Wrap("FqCodel", TcQdiscFqCodelOption_parse(buf))
      [] kind = TcFilterU32_KIND -> Wrap("U32", TcFilterU32Option_parse(buf))
      [] kind = TcFilterMatchAll_KIND -> Wrap("MatchAll", TcFilterMatchAllOption_parse(buf))
      [] OTHER -> WrapOther(DefaultNla_parse(buf))

(***************************************************************************)
(* NlasIterator and the loops over it.                                     *)
(***************************************************************************)
\* What the iterator yields from `position` on: Ok(NlaBuffer) items, each the
\* rest of the buffer from the record's first byte, and after a failed check
\* one Err item and nothing more.
RECURSIVE NlasIterator_from(_, _)
NlasIterator_from(buffer, position) ==
    IF position >= Len(buffer) THEN <<>>
    ELSE LET rest == SubSeq(buffer, position + 1, Len(buffer))
         IN  IF NlaBuffer_check(rest)
             THEN <<[ok |-> TRUE, buf |-> rest, pos |-> position]>>
                    \o NlasIterator_from(buffer, position + nla_align(NlaBuffer_length(rest)))
             ELSE <<[ok |-> FALSE, buf |-> rest, pos |-> position]>>

\* next() that advances by the declared length, without rounding it up
NlasIterator_next_unaligned(buffer, position) ==
    IF position >= Len(buffer) THEN [some |-> FALSE, position |-> position]
    ELSE LET rest == SubSeq(buffer, position + 1, Len(buffer))
         IN  IF NlaBuffer_check(rest)
             THEN [some |-> TRUE, position |-> position + NlaBuffer_length(rest),
                   item |-> [ok |-> TRUE, buf |-> rest, pos |-> position]]
             ELSE [some |-> TRUE, position |-> Len(buffer),
                   item |-> [ok |-> FALSE, buf |-> rest, pos |-> position]]

\* NlasIterator::next, one call: None at or past the end; else the checked
\* record at the cursor, which moves past the record and its padding; else
\* the error, with the cursor moved to the end
NlasIterator_next(buffer, position) ==
    IF position >= Len(buffer) THEN [some |-> FALSE, position |-> position]
    ELSE LET rest == SubSeq(buffer, position + 1, Len(buffer))
         IN  IF NlaBuffer_check(rest)
             THEN [some |-> TRUE, position |-> position + nla_align(NlaBuffer_length(rest)),
                   item |-> [ok |-> TRUE, buf |-> rest, pos |-> position]]
             ELSE [some |-> TRUE, position |-> Len(buffer),
                   item |-> [ok |-> FALSE, buf |-> rest, pos |-> position]]

NlasIterator_new(buffer) == NlasIterator_from(buffer, 0)

\* the result of a sequence parse: the list, or the first error with the
\* position of the record that raised it and the call that raised it
OkList(l) == [ok |-> TRUE, val |-> l, at |-> 0, why |-> "none"]
ErrAt(i, why) == [ok |-> FALSE, val |-> <<>>, at |-> i, why |-> why]

\* the attribute parser a loop calls
Attr_parse(f, buf) ==
    CASE f = "link" -> LinkAttribute_parse_with_param(buf, f)
      [] f = "neighbour" -> NeighbourAttribute_parse_with_param(buf, f)
      [] f = "neighbour_table" -> NeighbourTableAttribute_parse(buf)
      [] f = "vxlan" -> InfoVxlan_parse(buf)
      [] OTHER -> TcOption_parse_with_param(buf, f)

\* `for nla in iter { list.push(T::parse(&nla?)?) }`: the first failure, of the
\* iterator or of the attribute parser, is returned in place of the list
RECURSIVE ParseLoop(_, _, _, _)
ParseLoop(f, items, i, acc) ==
    IF i > Len(items) THEN OkList(acc)
    ELSE IF ~items[i].ok THEN ErrAt(i, "nla")
    ELSE LET r == Attr_parse(f, items[i].buf)
         IN  IF ~r.ok THEN ErrAt(i, "attribute")
             ELSE ParseLoop(f, items, i + 1, Append(acc, r.val))

\* the same loop with `continue` where the code has `?`
RECURSIVE ParseLoop_lenient(_, _, _, _)
ParseLoop_lenient(f, items, i, acc) ==
    IF i > Len(items) THEN OkList(acc)
    ELSE IF ~items[i].ok THEN ParseLoop_lenient(f, items, i + 1, acc)
    ELSE LET r == Attr_parse(f, items[i].buf)
         IN  IF ~r.ok THEN ParseLoop_lenient(f, items, i + 1, acc)
             ELSE ParseLoop_lenient(f, items, i + 1, Append(acc, r.val))

\* the same loop with `insert(0, ..)` where the code has `push`
RECURSIVE ParseLoop_prepend(_, _, _, _)
ParseLoop_prepend(f, items, i, acc) ==
    IF i > Len(items) THEN OkList(acc)
    ELSE IF ~items[i].ok THEN ErrAt(i, "nla")
    ELSE LET r == Attr_parse(f, items[i].buf)
         IN  IF ~r.ok THEN ErrAt(i, "attribute")
             ELSE ParseLoop_prepend(f, items, i + 1, <<r.val>> \o acc)

TcKnownKinds ==
    {TcFilterU32_KIND, TcFilterMatchAll_KIND, TcFilterFlower_KIND, TcQdiscIngress_KIND,
     TcQdiscFqCodel_KIND}

\* VecTcOption::parse_with_param that drops what fails to parse
VecTcOption_parse_with_param_lenient(buf, kind) ==
    IF kind \in TcKnownKinds
    THEN ParseLoop_lenient(kind, NlasIterator_new(NlaBuffer_value(buf)), 1, <<>>)
    ELSE OkList(<<Other(DefaultNla_parse(buf).val)>>)

\* VecTcOption::parse_with_param that splits the value whatever the kind string
VecTcOption_parse_with_param_ungated(buf, kind) ==
    ParseLoop(kind, NlasIterator_new(NlaBuffer_value(buf)), 1, <<>>)

VecTcOption_parse_with_param(buf, kind) ==
    IF kind \in TcKnownKinds
    THEN ParseLoop(kind, NlasIterator_new(NlaBuffer_value(buf)), 1, <<>>)
    ELSE OkList(<<Other(DefaultNla_parse(buf).val)>>)

\* LinkMessageBuffer::attributes and its like: the iterator over the payload
\* that follows the fixed header
Message_attributes(buf, hlen) == NlasIterator_new(SubSeq(buf, hlen + 1, Len(buf)))

\* Vec<NeighbourAttribute>::parse_with_param that drops what fails to parse
Vec_NeighbourAttribute_parse_with_param_lenient(buf, address_family) ==
    ParseLoop_lenient("neighbour", Message_attributes(buf, NEIGHBOUR_HEADER_LEN), 1, <<>>)

Vec_LinkAttribute_parse_with_param(buf, af) ==
    ParseLoop("link", Message_attributes(buf, LINK_HEADER_LEN), 1, <<>>)

Vec_NeighbourAttribute_parse_with_param(buf, address_family) ==
    ParseLoop("neighbour", Message_attributes(buf, NEIGHBOUR_HEADER_LEN), 1, <<>>)

Vec_NeighbourTableAttribute_parse_prepend(buf) ==
    ParseLoop_prepend("neighbour_table",
                      Message_attributes(buf, NEIGHBOUR_TABLE_HEADER_LEN), 1, <<>>)

Vec_NeighbourTableAttribute_parse(buf) ==
    ParseLoop("neighbour_table", Message_attributes(buf, NEIGHBOUR_TABLE_HEADER_LEN), 1, <<>>)

\* the link-info data of a vxlan link: InfoVxlan::parse over every record
Vec_InfoVxlan_parse(payload) == ParseLoop("vxlan", NlasIterator_new(payload), 1, <<>>)

(***************************************************************************)
(* The Nla trait seen through a family, and the record emitter that every  *)
(* attribute type gets from `impl<T: Nla> Emitable for T`.                 *)
(***************************************************************************)
AttrFamilies == {"vxlan", "ipvlan", "ipvtap", "bond_port"}

Nla_value_len(f, x) ==
    CASE f = "vxlan" -> InfoVxlan_value_len(x)
      [] f = "ipvlan" -> InfoIpVlan_value_len(x)
      [] f = "ipvtap" -> InfoIpVtap_value_len(x)
      [] f = "bond_port" -> InfoBondPort_value_len(x)
      [] f \in {"link", "neighbour", "neighbour_table"} -> FieldFamily_value_len(x)
      [] OTHER -> TcOption_value_len(x)

Nla_kind(f, x) ==
    CASE f = "vxlan" -> InfoVxlan_kind(x)
      [] f = "ipvlan" -> InfoIpVlan_kind(x)
      [] f = "ipvtap" -> InfoIpVtap_kind(x)
      [] f = "bond_port" -> InfoBondPort_kind(x)
      [] f \in {"link", "neighbour", "neighbour_table"} -> FieldFamily_kind(x, FieldKind(f))
      [] OTHER -> TcOption_kind(x)

Nla_emit_value(f, x, buffer) ==
    CASE f = "vxlan" -> InfoVxlan_emit_value(x, buffer)
      [] f = "ipvlan" -> InfoIpVlan_emit_value(x, buffer)
      [] f = "ipvtap" -> InfoIpVtap_emit_value(x, buffer)
      [] f = "bond_port" -> InfoBondPort_emit_value(x, buffer)
      [] f \in {"link", "neighbour", "neighbour_table"} -> FieldFamily_emit_value(x, buffer)
      [] OTHER -> TcOption_emit_value(x, buffer)

Nla_parse(f, buf) ==
    CASE f = "vxlan" -> InfoVxlan_parse(buf)
      [] f = "ipvlan" -> InfoIpVlan_parse(buf)
      [] f = "ipvtap" -> InfoIpVtap_parse(buf)
      [] f = "bond_port" -> InfoBondPort_parse(buf)

Nla_parse_logs(f, buf, max) ==
    IF f \in {"ipvlan", "ipvtap"} THEN InfoIpVlan_parse_logs(buf, max) ELSE <<>>

\* the padding that follows a value of n bytes
Padding(n) == (NLA_ALIGNTO - (n % NLA_ALIGNTO)) % NLA_ALIGNTO

\* <T: Nla as Emitable>::buffer_len
Nla_buffer_len(f, x) ==
    Nla_value_len(f, x) + Padding(Nla_value_len(f, x)) + NLA_HEADER_SIZE

\* <T: Nla as Emitable>::emit into a buffer of buffer_len() bytes: the type
\* (kind and flag bits), the length (header and value, not the padding), the
\* value through emit_value on exactly value_len() bytes, then zero padding.
Nla_emit(f, x, buffer) ==
    LET n == Nla_value_len(f, x)
        k == Nla_kind(f, x)
        \* set_kind(kind()) writes the kind code without its flag bits; then
        \* set_network_byte_order_flag() and set_nested_flag(), each of which
        \* reads the kind code back without flag bits and writes it with its
        \* own flag: of the two flags the one set last, NLA_F_NESTED, is kept
        t0 == k % NLA_F_NET_BYTEORDER
        t1 == IF (k \div NLA_F_NET_BYTEORDER) % 2 = 1
              THEN (t0 % NLA_F_NET_BYTEORDER) + NLA_F_NET_BYTEORDER ELSE t0
        ty == IF (k \div NLA_F_NESTED) % 2 = 1
              THEN (t1 % NLA_F_NET_BYTEORDER) + NLA_F_NESTED ELSE t1
        hdr == BytesLE((n + NLA_HEADER_SIZE) % Pow2(16), 2) \o BytesLE(ty, 2)
        ev == Nla_emit_value(f, x, SubSeq(buffer, NLA_HEADER_SIZE + 1, NLA_HEADER_SIZE + n))
    IN  IF Len(buffer) < NLA_HEADER_SIZE + n + Padding(n) \/ ev.panic
        THEN Panicked(buffer)
        ELSE Written(hdr \o ev.buf \o Zeros(Padding(n))
                     \o SubSeq(buffer, NLA_HEADER_SIZE + n + Padding(n) + 1, Len(buffer)))

\* <&[T] as Emitable>::buffer_len: the padded sizes of the records, added up
RECURSIVE Slice_buffer_len(_, _)
Slice_buffer_len(f, attrs) ==
    IF attrs = <<>> THEN 0
    ELSE Nla_buffer_len(f, Head(attrs)) + Slice_buffer_len(f, Tail(attrs))

\* <&[T] as Emitable>::emit: each record into buffer[start..end], one after the other
RECURSIVE Slice_emit_from(_, _, _, _)
Slice_emit_from(f, attrs, buffer, start) ==
    IF attrs = <<>> THEN Written(buffer)
    ELSE LET end == start + Nla_buffer_len(f, Head(attrs))
         IN  IF end > Len(buffer) THEN Panicked(buffer)
             ELSE LET e == Nla_emit(f, Head(attrs), SubSeq(buffer, start + 1, end))
                  IN  IF e.panic THEN Panicked(buffer)
                      ELSE Slice_emit_from(f, Tail(attrs), Overwrite(buffer, start, e.buf), end)

Slice_emit(f, attrs, buffer) == Slice_emit_from(f, attrs, buffer, 0)

(***************************************************************************)
(* link/message.rs, neighbour/message.rs, neighbour_table/message.rs       *)
(***************************************************************************)
\* a parsed message: the fixed header as it lay in the buffer, and the list
Message(header, r) ==
    [ok |-> r.ok, val |-> r.val, at |-> r.at, why |-> r.why,
     header |-> IF r.ok THEN header ELSE <<>>]
NoHeader(r) == Message(<<>>, r)

\* the header's emit: its buffer_len() bytes at the start of the buffer
Header_emit(header, buffer) ==
    IF Len(buffer) < Len(header) THEN Panicked(buffer)
    ELSE Written(Overwrite(buffer, 0, header))

\* emit of a message whose header takes hlen bytes: `self.header.emit(buffer)`,
\* then `self.attributes.as_slice().emit(&mut buffer[hlen..])`; at a panic the
\* buffer holds what was written before it
Message_emit(f, msg, buffer, hlen) ==
    LET h == Header_emit(msg.header, buffer)
    IN  IF h.panic \/ hlen > Len(buffer) THEN Panicked(h.buf)
        ELSE LET a == Slice_emit(f, msg.val, SubSeq(h.buf, hlen + 1, Len(buffer)))
                 all == Overwrite(h.buf, hlen, a.buf)
             IN  IF a.panic THEN Panicked(all) ELSE Written(all)

\* LinkMessage::buffer_len that leaves the header out
LinkMessage_buffer_len_no_header(msg) == Slice_buffer_len("link", msg.val)

LinkMessage_buffer_len(msg) == LINK_HEADER_LEN + Slice_buffer_len("link", msg.val)
LinkMessage_emit(msg, buffer) == Message_emit("link", msg, buffer, LINK_HEADER_LEN)
LinkMessage_parse(buf) ==
    LET header == SubSeq(buf, 1, LINK_HEADER_LEN)
    IN  Message(header, Vec_LinkAttribute_parse_with_param(buf, header[1]))

NeighbourMessage_buffer_len(msg) ==
    NEIGHBOUR_HEADER_LEN + Slice_buffer_len("neighbour", msg.val)
NeighbourMessage_emit(msg, buffer) ==
    Message_emit("neighbour", msg, buffer, NEIGHBOUR_HEADER_LEN)
NeighbourMessage_parse(buf) ==
    LET header == SubSeq(buf, 1, NEIGHBOUR_HEADER_LEN)
    IN  Message(header, Vec_NeighbourAttribute_parse_with_param(buf, header[1]))

NeighbourTableMessage_buffer_len(msg) ==
    NEIGHBOUR_TABLE_HEADER_LEN + Slice_buffer_len("neighbour_table", msg.val)
NeighbourTableMessage_emit(msg, buffer) ==
    Message_emit("neighbour_table", msg, buffer, NEIGHBOUR_TABLE_HEADER_LEN)
NeighbourTableMessage_parse(buf) ==
    LET header == SubSeq(buf, 1, NEIGHBOUR_TABLE_HEADER_LEN)
    IN  Message(header, Vec_NeighbourTableAttribute_parse(buf))

(***************************************************************************)
(* Inputs.  Byte strings are drawn from arithmetic patterns; integers from *)
(* the corners of their width.                                             *)
(***************************************************************************)
MaxStep == 1        \* the largest step between neighbouring pattern bytes
MaxValLen == 17     \* the longest value of a wire record (one past an IPv6 address)
MaxKindSlack == 2   \* how many kind codes past the last known one are tried
MaxHwLen == 6       \* the longest PermHwaddr that is constructed

\* a byte that no emitter writes on its own: 0xAA, the content of a fresh buffer
Dirty == 10 * 16 + 10
Fresh(n) == [i \in 1..n |-> Dirty]

PatternSeeds == {0, 1, 255}
Pattern(n, a, b) == [i \in 1..n |-> (a + (i - 1) * b) % 256]
Patterns(n) == {Pattern(n, a, b) : a \in PatternSeeds, b \in 0..MaxStep}

U8Samples == {0, 1, 2, 3, 4, 127, 128, 255}
U16Samples == {0, 1, 2, 3, 255, 256, 4789, Pow2(16) - 1}
U32Samples ==
    {Num(0, 4), Num(1, 4), Num(42, 4), Num(256, 4), Num(Pow2(16), 4), Num(Pow2(24), 4),
     <<128, 0, 0, 0>>, <<255, 255, 255, 255>>, <<1, 2, 3, 4>>}
\* i32: -2^31, -1, 0, 1, 2^31 - 1
I32Samples ==
    {<<128, 0, 0, 0>>, <<255, 255, 255, 255>>, Num(0, 4), Num(1, 4), <<127, 255, 255, 255>>}

DefaultNlaSamples(kinds) ==
    {[kind |-> k, value |-> p] : k \in kinds, p \in Patterns(0) \cup Patterns(3)}

VxlanValues ==
    {[tag |-> t, v |-> x] : t \in VxlanU32Tags, x \in U32Samples}
    \cup {[tag |-> t, v |-> x] : t \in VxlanU8Tags, x \in U8Samples}
    \cup {[tag |-> t, v |-> x] : t \in VxlanBoolTags \cup VxlanPresenceTags, x \in BOOLEAN}
    \cup {[tag |-> t, v |-> x] : t \in VxlanV4Tags, x \in Patterns(4)}
    \cup {[tag |-> t, v |-> x] : t \in VxlanV6Tags, x \in Patterns(16)}
    \cup {[tag |-> "Port", v |-> x] : x \in U16Samples}
    \cup {[tag |-> "PortRange", v |-> <<x, y>>] : x, y \in {0, 1, 4789, Pow2(16) - 1}}
    \cup {Other(d) : d \in DefaultNlaSamples({0, IFLA_VXLAN_LOCALBYPASS + 1,
                                              IFLA_VXLAN_ID + NLA_F_NESTED,
                                              IFLA_VXLAN_ID + NLA_F_NESTED
                                                  + NLA_F_NET_BYTEORDER})}

IpVlanModes == {Named("L2"), Named("L3"), Named("L3S")} \cup {OtherCode(x) : x \in U16Samples}
IpVlanValues ==
    {[tag |-> "Mode", v |-> m] : m \in IpVlanModes}
    \cup {[tag |-> "Flags", v |-> IpVlanFlags_from_bits_retain(x)] : x \in U16Samples}
    \cup {Other(d) : d \in DefaultNlaSamples({0, IFLA_IPVLAN_FLAGS + 1})}

BondPortStates == {Named("Active"), Named("Backup")} \cup {OtherCode(x) : x \in U8Samples}
MiiStatuses ==
    {Named("Up"), Named("GoingDown"), Named("Down"), Named("GoingBack")}
    \cup {OtherCode(x) : x \in U8Samples}
BondPortValues ==
    {[tag |-> "LinkFailureCount", v |-> x] : x \in U32Samples}
    \cup {[tag |-> "MiiStatus", v |-> m] : m \in MiiStatuses}
    \cup {[tag |-> "PermHwaddr", v |-> p] : p \in UNION {Patterns(n) : n \in 0..MaxHwLen}}
    \cup {[tag |-> "Prio", v |-> x] : x \in I32Samples}
    \cup {[tag |-> "QueueId", v |-> x] : x \in U16Samples}
    \cup {[tag |-> "BondPortState", v |-> m] : m \in BondPortStates}
    \cup {Other(d) : d \in DefaultNlaSamples({0, IFLA_BOND_PORT_QUEUE_ID + 1})}

Values(f) ==
    CASE f = "vxlan" -> VxlanValues
      [] f \in {"ipvlan", "ipvtap"} -> IpVlanValues
      [] f = "bond_port" -> BondPortValues

\* the kind codes a family's parser gives a variant of its own
KnownKinds(f) ==
    CASE f = "vxlan" -> IFLA_VXLAN_ID..IFLA_VXLAN_LOCALBYPASS
      [] f \in {"ipvlan", "ipvtap"} -> {IFLA_IPVLAN_MODE, IFLA_IPVLAN_FLAGS}
      [] f = "bond_port" ->
            (IFLA_BOND_PORT_STATE..IFLA_BOND_PORT_QUEUE_ID) \cup {IFLA_BOND_PORT_PRIO}

LastKind(f) == CHOOSE k \in KnownKinds(f) : \A j \in KnownKinds(f) : j <= k
WireKinds(f) == 0..(LastKind(f) + MaxKindSlack)
WireFlags == {0, NLA_F_NESTED, NLA_F_NET_BYTEORDER, NLA_F_NESTED + NLA_F_NET_BYTEORDER}

\* one record as it lies in a section: header, value, padding bytes of content fill
WireRecord(ty, value, fill) ==
    BytesLE(NLA_HEADER_SIZE + Len(value), 2) \o BytesLE(ty, 2) \o value
        \o [i \in 1..Padding(Len(value)) |-> fill]

WireRecords(f) ==
    {WireRecord(k + fl, p, fill) :
        k \in WireKinds(f), fl \in WireFlags,
        p \in UNION {Patterns(n) : n \in 0..MaxValLen}, fill \in {0, Dirty}}

(***************************************************************************)
(* The single-attribute harness: a constructed value is emitted and the    *)
(* record parsed (value -> emitted -> reparsed), or a record off the wire  *)
(* is parsed and the result emitted again (wire -> parsed -> done).        *)
(***************************************************************************)
InitAttr ==
    /\ family \in AttrFamilies
    /\ \/ /\ pc = "value"
          /\ val \in Values(family)
          /\ rec = <<>>
       \/ /\ pc = "wire"
          /\ val = Nil
          /\ rec \in WireRecords(family)
    /\ res = Err
    /\ out = <<>>
    /\ pieces = <<>>
    /\ logged = <<>>
    /\ cursor = 0
    /\ max_level \in {LevelFilter_Off, LevelFilter_Trace}

\* kind(), value_len() and emit_value() of a constructed value, as a record
EmitValue ==
    /\ pc = "value"
    /\ LET e == Nla_emit(family, val, Fresh(Nla_buffer_len(family, val)))
       IN  /\ pc' = IF e.panic THEN "panic" ELSE "emitted"
           /\ rec' = e.buf
    /\ UNCHANGED <<family, val, res, out, pieces, logged, cursor, max_level>>

\* the family's parse on a record the iterator has checked
ParseRecord ==
    /\ pc \in {"emitted", "wire"}
    /\ NlaBuffer_check(rec)
    /\ res' = Nla_parse(family, rec)
    /\ logged' = logged \o Nla_parse_logs(family, rec, max_level)
    /\ pc' = IF pc = "emitted" THEN "reparsed" ELSE "parsed"
    /\ UNCHANGED <<family, val, rec, out, pieces, cursor, max_level>>

\* the parsed attribute emitted again
ReEmit ==
    /\ pc = "parsed"
    /\ res.ok
    /\ LET e == Nla_emit(family, res.val, Fresh(Nla_buffer_len(family, res.val)))
       IN  /\ pc' = IF e.panic THEN "panic" ELSE "done"
           /\ out' = e.buf
    /\ UNCHANGED <<family, val, rec, res, pieces, logged, cursor, max_level>>

NextAttr == EmitValue \/ ParseRecord \/ ReEmit

SpecAttr == InitAttr /\ [][NextAttr]_vars

(***************************************************************************)
(* The scalar harness: the same calls, over every code of the width of a   *)
(* bounded enum or of the flag set.                                        *)
(***************************************************************************)
U16All == 0..(Pow2(16) - 1)

EnumValues(f) ==
    {x \in Values(f) : x.tag \in {"Mode", "Flags", "MiiStatus", "BondPortState"}}

\* the kind codes of the one-byte boolean vxlan attributes
VxlanBoolKinds == {InfoVxlan_kind([tag |-> t, v |-> TRUE]) : t \in VxlanBoolTags}

InitScalar ==
    /\ \/ /\ pc = "wire"
          /\ val = Nil
          /\ \/ /\ family = "vxlan"
                /\ \E k \in VxlanBoolKinds, x \in U8 : rec = WireRecord(k, <<x>>, 0)
             \/ /\ family \in {"ipvlan", "ipvtap"}
                /\ \E k \in {IFLA_IPVLAN_MODE, IFLA_IPVLAN_FLAGS}, x \in U16All :
                      rec = WireRecord(k, BytesLE(x, 2), 0)
             \/ /\ family = "bond_port"
                /\ \E k \in {IFLA_BOND_PORT_STATE, IFLA_BOND_PORT_MII_STATUS}, x \in U8 :
                      rec = WireRecord(k, <<x>>, Dirty)
       \/ /\ pc = "value"
          /\ family \in {"ipvlan", "ipvtap", "bond_port"}
          /\ val \in EnumValues(family)
          /\ rec = <<>>
       \/ /\ pc = "value"
          /\ family = "vxlan"
          /\ val \in {[tag |-> t, v |-> b] : t \in VxlanBoolTags, b \in BOOLEAN}
          /\ rec = <<>>
    /\ res = Err
    /\ out = <<>>
    /\ pieces = <<>>
    /\ logged = <<>>
    /\ cursor = 0
    /\ max_level = LevelFilter_Off

SpecScalar == InitScalar /\ [][NextAttr]_vars

(***************************************************************************)
(* Claims about single attributes.                                         *)
(***************************************************************************)
\* the codes of the unit variants of the enum a variant carries
NamedCodes(tag) ==
    CASE tag = "Mode" -> {IPVLAN_MODE_L2, IPVLAN_MODE_L3, IPVLAN_MODE_L3S}
      [] tag = "BondPortState" -> {IFLA_BOND_PORT_STATE_ACTIVE, IFLA_BOND_PORT_STATE_BACKUP}
      [] tag = "MiiStatus" ->
            IFLA_BOND_PORT_MII_STATUS_UP..IFLA_BOND_PORT_MII_STATUS_GOING_BACK
      [] OTHER -> {}

\* the unit variant the crate documents for a code
UnitVariant(tag, x) ==
    CASE tag = "Mode" -> <<"L2", "L3", "L3S">>[x + 1]
      [] tag = "BondPortState" -> <<"Active", "Backup">>[x + 1]
      [] tag = "MiiStatus" -> <<"Up", "GoingDown", "Down", "GoingBack">>[x + 1]

\* a presence-only variant holding false
AbsentPresence(f, x) == f = "vxlan" /\ x.tag \in VxlanPresenceTags /\ x.v = FALSE

\* an enum payload Other(c) whose code c belongs to a unit variant
ShadowedOther(f, x) ==
    /\ x.tag \in {"Mode", "BondPortState", "MiiStatus"}
    /\ x.v.variant = "Other"
    /\ x.v.other \in NamedCodes(x.tag)

\* C1 as stated: every known variant, with every payload it can hold, comes
\* back equal from emit followed by parse.
C1_RoundTripEveryPayload ==
    (pc = "reparsed" /\ val.tag # "Other") => res = Ok(val)

\* C1 (amended): a known variant comes back equal from emit followed by
\* parse, unless it is a presence-only variant (Gbp, Gpe, RemCsumNoPartial)
\* holding false, which comes back holding true, or carries an enum payload
\* Other(c) with c the code of a unit variant, which comes back carrying
\* that unit variant.
C1_RoundTripKnown ==
    (pc = "reparsed" /\ val.tag # "Other") =>
        /\ res.ok
        /\ res.val.tag = val.tag
        /\ CASE AbsentPresence(family, val) -> res.val.v = TRUE
             [] ShadowedOther(family, val) ->
                    res.val.v = Named(UnitVariant(val.tag, val.v.other))
             [] OTHER -> res.val = val

C1_Witness ==
    /\ pc = "reparsed"
    /\ family = "vxlan"
    /\ val = [tag |-> "Learning", v |-> TRUE]
    /\ res = Ok(val)

\* the record's kind code is not one the family gives a variant of its own
UnknownKind == NlaBuffer_kind(rec) \notin KnownKinds(family)
RecLen == NlaBuffer_length(rec)

\* C2 as stated: a record of unknown kind parses to Other and is emitted
\* again byte for byte, the padding after the value included.
C2_OpaqueByteForByte ==
    (pc = "done" /\ UnknownKind) => (res.val.tag = "Other" /\ out = rec)

\* the record carries both flag bits in its type field
BothFlags == NlaBuffer_nested_flag(rec) /\ NlaBuffer_network_byte_order_flag(rec)

\* C2 (amended): a record of unknown kind parses to Other, which holds the
\* type field whole (kind code and both flag bits) and the value bytes; and
\* emitting it again gives a record of the same size with the same length,
\* the same kind code, the same value bytes and the same flag bits, except
\* that of a record that carries both NLA_F_NESTED and NLA_F_NET_BYTEORDER
\* only NLA_F_NESTED is written; the padding bytes after the value are
\* written as zero whatever the original padding was.  So the record comes
\* back byte for byte exactly when its padding was zero and it does not
\* carry both flag bits.
C2_OpaqueLossless ==
    /\ (pc \in {"parsed", "done"} /\ UnknownKind) =>
            /\ res.ok
            /\ res.val.tag = "Other"
            /\ res.val.v.kind = NlaBuffer_raw_type(rec)
            /\ res.val.v.value = NlaBuffer_value(rec)
    /\ (pc = "done" /\ UnknownKind) =>
            /\ Len(out) = Len(rec)
            /\ NlaBuffer_length(out) = RecLen
            /\ NlaBuffer_kind(out) = NlaBuffer_kind(rec)
            /\ NlaBuffer_value(out) = NlaBuffer_value(rec)
            /\ NlaBuffer_nested_flag(out) = NlaBuffer_nested_flag(rec)
            /\ NlaBuffer_network_byte_order_flag(out) =
                  (NlaBuffer_network_byte_order_flag(rec) /\ ~NlaBuffer_nested_flag(rec))
            /\ \A i \in (RecLen + 1)..Len(out) : out[i] = 0
            /\ out = rec <=>
                  /\ ~BothFlags
                  /\ \A i \in (RecLen + 1)..Len(rec) : rec[i] = 0

\* a bond-port record of kind 6 with both flag bits, a value of one byte
\* and dirty padding: it comes back with NLA_F_NESTED alone and zero padding
C2_Witness ==
    /\ pc = "done"
    /\ family = "bond_port"
    /\ NlaBuffer_raw_type(rec) =
          IFLA_BOND_PORT_QUEUE_ID + 1 + NLA_F_NESTED + NLA_F_NET_BYTEORDER
    /\ RecLen = NLA_HEADER_SIZE + 1
    /\ rec[Len(rec)] = Dirty
    /\ NlaBuffer_raw_type(out) = IFLA_BOND_PORT_QUEUE_ID + 1 + NLA_F_NESTED
    /\ out[Len(out)] = 0
    /\ out # rec

IsFlagsRecord ==
    /\ family \in {"ipvlan", "ipvtap"}
    /\ pc \in {"wire", "parsed", "done"}
    /\ NlaBuffer_kind(rec) = IFLA_IPVLAN_FLAGS
    /\ Len(NlaBuffer_value(rec)) = 2

\* C8: an ipvlan/ipvtap Flags record of value x parses to a flag set whose
\* bits() is x, bits other than Private and Vepa included, and emitting it
\* again writes x.
C8_FlagsRetained ==
    IsFlagsRecord =>
        /\ pc \in {"parsed", "done"} =>
              /\ res.ok
              /\ res.val.tag = "Flags"
              /\ IpVlanFlags_bits(res.val.v) = ReadU16LE(NlaBuffer_value(rec))
        /\ pc = "done" =>
              /\ NlaBuffer_kind(out) = IFLA_IPVLAN_FLAGS
              /\ NlaBuffer_value(out) = NlaBuffer_value(rec)

C8_Witness ==
    /\ IsFlagsRecord
    /\ pc = "done"
    /\ family = "ipvtap"
    /\ IpVlanFlags_bits(res.val.v) = Pow2(15) + 4 + IPVLAN_F_VEPA
    /\ IpVlanFlags_contains(res.val.v, IPVLAN_F_VEPA)
    /\ ~IpVlanFlags_contains(res.val.v, IPVLAN_F_PRIVATE)
    /\ NlaBuffer_value(out) = <<6, 128>>

\* the record carries a bounded enum of the width its parser asks for
IsEnumRecord ==
    /\ pc \in {"wire", "parsed", "done"}
    /\ \/ /\ family \in {"ipvlan", "ipvtap"}
          /\ NlaBuffer_kind(rec) = IFLA_IPVLAN_MODE
          /\ Len(NlaBuffer_value(rec)) = 2
       \/ /\ family = "bond_port"
          /\ NlaBuffer_kind(rec) \in {IFLA_BOND_PORT_STATE, IFLA_BOND_PORT_MII_STATUS}
          /\ Len(NlaBuffer_value(rec)) = 1

\* the raw code the record carries
RawCode ==
    IF family = "bond_port" THEN NlaBuffer_value(rec)[1]
    ELSE ReadU16LE(NlaBuffer_value(rec))

\* C9: every raw code of the width of IpVlanMode (u16), BondPortState (u8)
\* and MiiStatus (u8) converts to the unit variant of that code when it is
\* one of the fixed codes and to Other(code) otherwise, the result converts
\* back to the code, and no Other that parsing produces carries the code of
\* a unit variant.
C9_EnumForwardCompatible ==
    IsEnumRecord =>
        /\ pc \in {"parsed", "done"} =>
              /\ res.ok
              /\ IF RawCode \in NamedCodes(res.val.tag)
                 THEN res.val.v = Named(UnitVariant(res.val.tag, RawCode))
                 ELSE res.val.v = OtherCode(RawCode)
              /\ res.val.v.variant = "Other" => res.val.v.other \notin NamedCodes(res.val.tag)
        /\ pc = "done" => NlaBuffer_value(out) = NlaBuffer_value(rec)

C9_Witness ==
    /\ IsEnumRecord
    /\ pc = "done"
    /\ family = "ipvlan"
    /\ res.val = [tag |-> "Mode", v |-> OtherCode(Pow2(16) - 1)]
    /\ NlaBuffer_value(out) = <<255, 255>>

(***************************************************************************)
(* address/cache_info.rs and link/af_spec/inet6_icmp.rs: structures of a   *)
(* fixed layout.  u32 and i64 fields are numerals of 4 and 8 bytes.        *)
(***************************************************************************)
ADDRESSS_CACHE_INFO_LEN == 16
ICMP6_STATS_LEN == 56

\* the accessors that buffer! generates for a field at lo..hi
Buffer_get(buf, lo, hi) == ReadNumLE(SubSeq(buf, lo + 1, hi))
Buffer_set(w, lo, hi, x) ==
    IF w.panic \/ Len(w.buf) < hi THEN Panicked(w.buf) ELSE WriteNumLE(w.buf, lo, x)

\* parse that reads cstamp and tstamp from each other's range
CacheInfo_parse_swapped(buf) ==
    Ok([ifa_preferred |-> Buffer_get(buf, 0, 4),
        ifa_valid |-> Buffer_get(buf, 4, 8),
        cstamp |-> Buffer_get(buf, 12, 16),
        tstamp |-> Buffer_get(buf, 8, 12)])

CacheInfo_parse(buf) ==
    Ok([ifa_preferred |-> Buffer_get(buf, 0, 4),
        ifa_valid |-> Buffer_get(buf, 4, 8),
        cstamp |-> Buffer_get(buf, 8, 12),
        tstamp |-> Buffer_get(buf, 12, 16)])

CacheInfo_buffer_len(x) == ADDRESSS_CACHE_INFO_LEN

CacheInfo_emit(x, buffer) ==
    LET b1 == Buffer_set(Written(buffer), 0, 4, x.ifa_preferred)
        b2 == Buffer_set(b1, 4, 8, x.ifa_valid)
        b3 == Buffer_set(b2, 8, 12, x.cstamp)
    IN  Buffer_set(b3, 12, 16, x.tstamp)

Icmp6Stats_parse(buf) ==
    Ok([num |-> Buffer_get(buf, 0, 8),
        in_msgs |-> Buffer_get(buf, 8, 16),
        in_errors |-> Buffer_get(buf, 16, 24),
        out_msgs |-> Buffer_get(buf, 24, 32),
        out_errors |-> Buffer_get(buf, 32, 40),
        csum_errors |-> Buffer_get(buf, 40, 48),
        rate_limit_host |-> Buffer_get(buf, 48, 56)])

Icmp6Stats_buffer_len(x) == ICMP6_STATS_LEN

Icmp6Stats_emit(x, buffer) ==
    LET b1 == Buffer_set(Written(buffer), 0, 8, x.num)
        b2 == Buffer_set(b1, 8, 16, x.in_msgs)
        b3 == Buffer_set(b2, 16, 24, x.in_errors)
        b4 == Buffer_set(b3, 24, 32, x.out_msgs)
        b5 == Buffer_set(b4, 32, 40, x.out_errors)
        b6 == Buffer_set(b5, 40, 48, x.csum_errors)
    IN  Buffer_set(b6, 48, 56, x.rate_limit_host)

(***************************************************************************)
(* The section harness: a section of records (the value of a traffic-      *)
(* control option container, the attribute section of a message, the       *)
(* link-info data of a vxlan link) is parsed to a list and the list is     *)
(* emitted (section -> parsed_all -> done_all).                            *)
(***************************************************************************)
MaxRecs == 3          \* the most records a section is put together from

TcFamilies == TcKnownKinds \cup {"sfq"}
MessageFamilies == {"link", "neighbour", "neighbour_table"}
SeqFamilies == TcFamilies \cup MessageFamilies \cup {"vxlan"}
\* the families whose section goes through the iterator
LoopFamilies == TcKnownKinds \cup MessageFamilies \cup {"vxlan"}

HeaderLen(f) ==
    CASE f = "link" -> LINK_HEADER_LEN
      [] f = "neighbour" -> NEIGHBOUR_HEADER_LEN
      [] f = "neighbour_table" -> NEIGHBOUR_TABLE_HEADER_LEN
      [] f \in TcFamilies -> NLA_HEADER_SIZE
      [] OTHER -> 0

\* a kind code no family knows, and a declared length that runs past any section
StrangeKind == Pow2(10) - 1
LongBy == Pow2(8)

TypedKinds(f) ==
    IF f = "vxlan" THEN {IFLA_VXLAN_ID, IFLA_VXLAN_LEARNING} ELSE {FieldKind(f)}

\* A piece of a section: a record of type ty and value, whose header declares
\* the right length (fault none), a length below the header size (short) or a
\* length past the end of the section (long).
Piece(ty, value, fault) == [ty |-> ty, value |-> value, fault |-> fault]

Palette(f) ==
    {Piece(k, v, "none") : k \in TypedKinds(f), v \in {<<42, 0, 0, 0>>, <<1>>}}
    \cup {Piece(StrangeKind, v, "none") :
            v \in {<<>>, <<1, 2>>, <<1, 2, 3>>}}
    \cup {Piece(StrangeKind, <<1, 2, 3, 4>>, x) : x \in {"short", "long"}}

DeclaredLen(p) ==
    CASE p.fault = "none" -> NLA_HEADER_SIZE + Len(p.value)
      [] p.fault = "short" -> NLA_HEADER_SIZE - 1
      [] p.fault = "long" -> NLA_HEADER_SIZE + Len(p.value) + LongBy

EncodePiece(p) ==
    BytesLE(DeclaredLen(p), 2) \o BytesLE(p.ty, 2) \o p.value \o Zeros(Padding(Len(p.value)))

RECURSIVE Concat(_)
Concat(ps) == IF ps = <<>> THEN <<>> ELSE EncodePiece(Head(ps)) \o Concat(Tail(ps))

PieceSeqs(f) == UNION {[1..n -> Palette(f)] : n \in 0..MaxRecs}
Tails == {<<>>, <<9>>, <<9, 9, 9>>}

\* the section: the pieces, then stray bytes (tail), or with the padding of
\* the last record cut off (trim)
Blob(in) ==
    LET all == Concat(in.recs) \o in.tail
        last == in.recs[Len(in.recs)]
    IN  IF in.trim THEN SubSeq(all, 1, Len(all) - Padding(Len(last.value))) ELSE all

\* the bytes in front of the section: the container's header, the message's header
Prefix(f, blob) ==
    CASE f \in TcFamilies ->
            BytesLE(NLA_HEADER_SIZE + Len(blob), 2) \o BytesLE(TCA_OPTIONS + NLA_F_NESTED, 2)
      [] f \in MessageFamilies -> [i \in 1..HeaderLen(f) |-> i]
      [] OTHER -> <<>>

Section(f, buf) == SubSeq(buf, HeaderLen(f) + 1, Len(buf))

InitSeq ==
    /\ family \in SeqFamilies
    /\ \E recs \in PieceSeqs(family), tail \in Tails, trim \in BOOLEAN :
          /\ trim => /\ tail = <<>>
                     /\ recs # <<>>
                     /\ recs[Len(recs)].fault = "none"
                     /\ Padding(Len(recs[Len(recs)].value)) > 0
          /\ pieces = [recs |-> recs, tail |-> tail, trim |-> trim]
    /\ rec = Prefix(family, Blob(pieces)) \o Blob(pieces)
    /\ pc = "section"
    /\ val = Nil
    /\ res = Err
    /\ out = <<>>
    /\ logged = <<>>
    /\ cursor = 0
    /\ max_level = LevelFilter_Off

\* VecTcOption::parse_with_param, LinkMessage::parse, NeighbourMessage::parse,
\* NeighbourTableMessage::parse, the vxlan link-info data
Section_parse(f, buf) ==
    CASE f \in TcFamilies -> NoHeader(VecTcOption_parse_with_param(buf, f))
      [] f = "link" -> LinkMessage_parse(buf)
      [] f = "neighbour" -> NeighbourMessage_parse(buf)
      [] f = "neighbour_table" -> NeighbourTableMessage_parse(buf)
      [] f = "vxlan" -> NoHeader(Vec_InfoVxlan_parse(buf))

Section_buffer_len(f, msg) ==
    CASE f = "link" -> LinkMessage_buffer_len(msg)
      [] f = "neighbour" -> NeighbourMessage_buffer_len(msg)
      [] f = "neighbour_table" -> NeighbourTableMessage_buffer_len(msg)
      [] OTHER -> Slice_buffer_len(f, msg.val)

Section_emit(f, msg, buffer) ==
    CASE f = "link" -> LinkMessage_emit(msg, buffer)
      [] f = "neighbour" -> NeighbourMessage_emit(msg, buffer)
      [] f = "neighbour_table" -> NeighbourTableMessage_emit(msg, buffer)
      [] OTHER -> Slice_emit(f, msg.val, buffer)

ParseSection ==
    /\ pc = "section"
    /\ res' = Section_parse(family, rec)
    /\ pc' = "parsed_all"
    /\ UNCHANGED <<family, val, rec, out, pieces, logged, cursor, max_level>>

EmitSection ==
    /\ pc = "parsed_all"
    /\ res.ok
    /\ LET e == Section_emit(family, res, Fresh(Section_buffer_len(family, res)))
       IN  /\ pc' = IF e.panic THEN "panic" ELSE "done_all"
           /\ out' = e.buf
    /\ UNCHANGED <<family, val, rec, res, pieces, logged, cursor, max_level>>

\* the emitted section parsed again; a traffic-control option list is put
\* back under a container header first
ReparseSection ==
    /\ pc = "done_all"
    /\ family \in LoopFamilies
    /\ val' = Section_parse(family, Prefix(family, out) \o
                  (IF family \in MessageFamilies THEN Section(family, out) ELSE out))
    /\ pc' = "reparsed_all"
    /\ UNCHANGED <<family, rec, res, out, pieces, logged, cursor, max_level>>

NextSeq == ParseSection \/ EmitSection \/ ReparseSection

SpecSeq == InitSeq /\ [][NextSeq]_vars

(***************************************************************************)
(* Sections: what the construction of the input says about it.             *)
(***************************************************************************)
RoundUp4(n) == ((n + 3) \div 4) * 4
PieceSize(p) == RoundUp4(4 + Len(p.value))

RECURSIVE PieceOffset(_, _)
PieceOffset(recs, i) ==
    IF i <= 1 THEN 0 ELSE PieceOffset(recs, i - 1) + PieceSize(recs[i - 1])

\* the header of piece i is broken, or i is the stray tail after the last piece
TlvFaultAt(in, i) ==
    \/ i <= Len(in.recs) /\ in.recs[i].fault # "none"
    \/ i = Len(in.recs) + 1 /\ in.tail # <<>>

\* piece i is a sound record that its family's attribute parser turns down
AttrFaultAt(f, in, i) ==
    /\ i <= Len(in.recs)
    /\ in.recs[i].fault = "none"
    /\ ~Attr_parse(f, EncodePiece(in.recs[i])).ok

Least(S) == IF S = {} THEN 0 ELSE CHOOSE i \in S : \A j \in S : i <= j
FirstTlvFault(in) == Least({i \in 1..(Len(in.recs) + 1) : TlvFaultAt(in, i)})
FirstBad(f, in) ==
    Least({i \in 1..(Len(in.recs) + 1) : TlvFaultAt(in, i) \/ AttrFaultAt(f, in, i)})

Parsed == pc \in {"parsed_all", "done_all", "reparsed_all", "panic"}
Emitted == pc \in {"done_all", "reparsed_all"}

\* C3: the iterator over a section yields only records that lie inside the
\* section (offset >= 0, declared length >= 4, offset + declared length <= the
\* section's length), each at the offset where the one before it ended; at a
\* record whose declared length is below 4 or runs past the end, or at stray
\* bytes too few for a header, it yields one error and stops, and the option
\* and attribute loops return a failure and no list.
C3_IteratorBounds ==
    (family \in LoopFamilies /\ Parsed) =>
        LET blob == Section(family, rec)
            items == NlasIterator_new(blob)
            bad == FirstTlvFault(pieces)
            sound == IF bad = 0 THEN Len(pieces.recs) ELSE bad - 1
        IN  /\ \A i \in 1..Len(items) : items[i].ok =>
                  /\ items[i].pos >= 0
                  /\ NlaBuffer_length(items[i].buf) >= NLA_HEADER_SIZE
                  /\ items[i].pos + NlaBuffer_length(items[i].buf) <= Len(blob)
            /\ \A i \in 1..sound :
                  /\ items[i].ok
                  /\ items[i].pos = PieceOffset(pieces.recs, i)
                  /\ NlaBuffer_length(items[i].buf) = 4 + Len(pieces.recs[i].value)
            /\ bad = 0 => Len(items) = sound
            /\ bad # 0 => /\ Len(items) = bad
                          /\ ~items[bad].ok
                          /\ ~res.ok
                          /\ res.val = <<>>

\* a u32 filter's options: a sound record, then one declared longer than the
\* section; the loop fails at the second
C3_Witness ==
    /\ family = TcFilterU32_KIND
    /\ pc = "parsed_all"
    /\ Len(pieces.recs) = 2
    /\ pieces.recs[1].fault = "none"
    /\ pieces.recs[2].fault = "long"
    /\ ~res.ok
    /\ res.at = 2
    /\ res.why = "nla"

TcVariant(kind) ==
    CASE kind = "u32" -> "U32"
      [] kind = "matchall" -> "MatchAll"
      [] kind = "flower" -> "Flower"
      [] kind = "ingress" -> "Ingress"
      [] kind = "fq_codel" -> "FqCodel"

\* C4: under the driver kinds u32, matchall, flower, ingress and fq_codel the
\* container is split into its records and each becomes the option of that
\* driver (U32, MatchAll, Flower, Ingress, FqCodel), one per record, in order;
\* under any other kind the result is the single entry Other holding the
\* container's type and its whole value, unparsed.
C4_DriverGating ==
    (family \in TcFamilies /\ Parsed) =>
        IF family \in {"u32", "matchall", "flower", "ingress", "fq_codel"}
        THEN /\ res.ok <=> FirstBad(family, pieces) = 0
             /\ res.ok =>
                  /\ Len(res.val) = Len(pieces.recs)
                  /\ \A i \in 1..Len(res.val) :
                        /\ res.val[i].tag = TcVariant(family)
                        /\ TcOption_kind(res.val[i]) = pieces.recs[i].ty
                        /\ TcOption_value_len(res.val[i]) = Len(pieces.recs[i].value)
                        /\ TcOption_emit_value(res.val[i], Fresh(Len(pieces.recs[i].value)))
                             = Written(pieces.recs[i].value)
        ELSE /\ res.ok
             /\ res.val = <<[tag |-> "Other",
                             v |-> [kind |-> TCA_OPTIONS + NLA_F_NESTED,
                                    value |-> Section(family, rec)]]>>

\* an fq_codel container of two records gives two FqCodel options; an sfq
\* container of two records gives one Other
C4_Witness ==
    /\ pc = "parsed_all"
    /\ Len(pieces.recs) = 2
    /\ \/ /\ family = TcQdiscFqCodel_KIND
          /\ res.ok
          /\ Len(res.val) = 2
          /\ res.val[1].tag = "FqCodel"
          /\ res.val[1].v.tag = "Target"
       \/ /\ family = "sfq"
          /\ res.ok
          /\ Len(res.val) = 1
          /\ res.val[1].tag = "Other"

\* the stream of C5: Id (kind 1) with the value 42, Learning (kind 7) with
\* the value byte 1 and three bytes of padding
VxlanExample ==
    BytesLE(8, 2) \o BytesLE(IFLA_VXLAN_ID, 2) \o BytesLE(42, 4)
      \o BytesLE(5, 2) \o BytesLE(IFLA_VXLAN_LEARNING, 2) \o <<1>> \o Zeros(3)

VxlanExampleList == <<[tag |-> "Id", v |-> Num(42, 4)], [tag |-> "Learning", v |-> TRUE]>>

\* C5 as stated: the example parses to [Id(42), Learning(true)] and the list
\* is emitted as 12 bytes, the last three of them zero
C5_VxlanScenarioTwelveBytes ==
    (family = "vxlan" /\ rec = VxlanExample /\ Parsed) =>
        /\ res.ok
        /\ res.val = VxlanExampleList
        /\ Emitted =>
              /\ Len(out) = 12
              /\ SubSeq(out, Len(out) - 2, Len(out)) = Zeros(3)

\* C5: the example parses to exactly [Id(42), Learning(true)], and the list is
\* emitted as 16 bytes, 8 for each record (the second: 4 of header, the value
\* byte 1, 3 zero bytes of padding), which are the bytes that were parsed.
C5_VxlanScenario ==
    (family = "vxlan" /\ rec = VxlanExample /\ Parsed) =>
        /\ res.ok
        /\ res.val = VxlanExampleList
        /\ pc # "panic"
        /\ Slice_buffer_len("vxlan", res.val) = 16
        /\ Nla_buffer_len("vxlan", res.val[1]) = 8
        /\ Nla_buffer_len("vxlan", res.val[2]) = 8
        /\ Emitted =>
              /\ Len(out) = 16
              /\ SubSeq(out, 13, 13) = <<1>>
              /\ SubSeq(out, 14, 16) = Zeros(3)
              /\ out = rec

C5_Witness ==
    /\ family = "vxlan"
    /\ rec = VxlanExample
    /\ pc = "done_all"
    /\ res.val = VxlanExampleList
    /\ Len(out) = 16

RECURSIVE SumPadded(_, _)
SumPadded(f, attrs) ==
    IF attrs = <<>> THEN 0
    ELSE RoundUp4(4 + Nla_value_len(f, Head(attrs))) + SumPadded(f, Tail(attrs))

\* C6: a message's buffer_len is its header's length plus, over its
\* attributes, 4 + value_len rounded up to a multiple of 4; emit fills exactly
\* that many bytes; each record starts at a multiple of 4 from the start of
\* the attribute section, declares the length 4 + n, and is followed by
\* (4 - n % 4) % 4 zero bytes before the next record or the end.
C6_MessageLength ==
    (family \in MessageFamilies /\ Parsed /\ res.ok) =>
        LET hlen == HeaderLen(family)
            attrs == res.val
            n(i) == Nla_value_len(family, attrs[i])
            off(i) == SumPadded(family, SubSeq(attrs, 1, i - 1))
            pad(i) == (4 - (n(i) % 4)) % 4
            total == hlen + SumPadded(family, attrs)
        IN  /\ Section_buffer_len(family, res) = total
            /\ pc # "panic"
            /\ Emitted =>
                  /\ Len(out) = total
                  /\ \A i \in 1..Len(attrs) :
                        LET at == hlen + off(i)
                            next == IF i = Len(attrs) THEN total ELSE hlen + off(i + 1)
                        IN  /\ off(i) % 4 = 0
                            /\ ReadU16LE(SubSeq(out, at + 1, at + 2)) = 4 + n(i)
                            /\ ReadU16LE(SubSeq(out, at + 3, at + 4)) = Nla_kind(family, attrs[i])
                            /\ at + 4 + n(i) + pad(i) = next
                            /\ SubSeq(out, at + 4 + n(i) + 1, next) = Zeros(pad(i))

\* a link message of three attributes with value lengths 4, 2 and 3: 16 bytes
\* of header and 8 + 8 + 8 of attributes
C6_Witness ==
    /\ family = "link"
    /\ pc = "done_all"
    /\ Len(res.val) = 3
    /\ Nla_value_len("link", res.val[1]) = 4
    /\ Nla_value_len("link", res.val[2]) = 2
    /\ Nla_value_len("link", res.val[3]) = 3
    /\ Len(out) = 40

\* C7: a section's parse returns the first failure, whether of a record's
\* header or of the attribute's own parser, at the record where it occurs and
\* with no list of the records before it; when it returns a list, the list
\* has one attribute for every record of the section, in order.
C7_FailFast ==
    (family \in LoopFamilies /\ Parsed) =>
        LET bad == FirstBad(family, pieces)
        IN  /\ bad # 0 =>
                  /\ ~res.ok
                  /\ res.val = <<>>
                  /\ res.at = bad
                  /\ res.why = IF TlvFaultAt(pieces, bad) THEN "nla" ELSE "attribute"
            /\ bad = 0 =>
                  /\ res.ok
                  /\ Len(res.val) = Len(pieces.recs)
                  /\ \A i \in 1..Len(res.val) :
                        /\ Nla_kind(family, res.val[i]) = pieces.recs[i].ty
                        /\ Nla_value_len(family, res.val[i]) = Len(pieces.recs[i].value)

\* a neighbour message: a sound attribute, then a probes attribute of one
\* byte, then another sound one; the parse fails at the second
C7_Witness ==
    /\ family = "neighbour"
    /\ pc = "parsed_all"
    /\ Len(pieces.recs) = 3
    /\ \A i \in 1..3 : pieces.recs[i].fault = "none"
    /\ pieces.recs[2] = Piece(NDA_PROBES, <<1>>, "none")
    /\ Attr_parse("neighbour", EncodePiece(pieces.recs[1])).ok
    /\ ~res.ok
    /\ res.val = <<>>
    /\ res.at = 2
    /\ res.why = "attribute"

(***************************************************************************)
(* The fixed-layout harness: a buffer of the structure's length is parsed  *)
(* and the structure is emitted into a fresh buffer of buffer_len() bytes  *)
(* (fixed -> fixed_parsed -> fixed_done).                                  *)
(***************************************************************************)
MaxFixedStep == 7     \* the largest step between neighbouring bytes of a buffer

FixedFamilies == {"cache_info", "icmp6"}
FixedLen(f) == IF f = "cache_info" THEN ADDRESSS_CACHE_INFO_LEN ELSE ICMP6_STATS_LEN

CacheInfoExample ==
    BytesLE(10, 4) \o BytesLE(20, 4) \o BytesLE(30, 4) \o BytesLE(40, 4)

FixedBuffers(f) ==
    {Pattern(FixedLen(f), a, b) : a \in U8Samples, b \in 0..MaxFixedStep}
    \cup (IF f = "cache_info" THEN {CacheInfoExample} ELSE {})

InitFixed ==
    /\ family \in FixedFamilies
    /\ rec \in FixedBuffers(family)
    /\ pc = "fixed"
    /\ val = Nil
    /\ res = Err
    /\ out = <<>>
    /\ pieces = <<>>
    /\ logged = <<>>
    /\ cursor = 0
    /\ max_level = LevelFilter_Off

ParseFixed ==
    /\ pc = "fixed"
    /\ res' = IF family = "cache_info" THEN CacheInfo_parse(rec) ELSE Icmp6Stats_parse(rec)
    /\ pc' = "fixed_parsed"
    /\ UNCHANGED <<family, val, rec, out, pieces, logged, cursor, max_level>>

EmitFixed ==
    /\ pc = "fixed_parsed"
    /\ res.ok
    /\ LET e == IF family = "cache_info"
                THEN CacheInfo_emit(res.val, Fresh(CacheInfo_buffer_len(res.val)))
                ELSE Icmp6Stats_emit(res.val, Fresh(Icmp6Stats_buffer_len(res.val)))
       IN  /\ pc' = IF e.panic THEN "panic" ELSE "fixed_done"
           /\ out' = e.buf
    /\ UNCHANGED <<family, val, rec, res, pieces, logged, cursor, max_level>>

NextFixed == ParseFixed \/ EmitFixed

SpecFixed == InitFixed /\ [][NextFixed]_vars

\* the integer whose n little-endian bytes lie at offset off of b
FieldAt(b, off, n) == [i \in 1..n |-> b[off + n + 1 - i]]

\* C10: a 16-byte buffer parses to the CacheInfo whose ifa_preferred,
\* ifa_valid, cstamp and tstamp are the 32-bit values at offsets 0, 4, 8 and
\* 12, and a 56-byte buffer to the Icmp6Stats whose seven counters are the
\* 64-bit values at offsets 0, 8, ..., 48; emitting the structure gives back
\* the buffer, byte for byte; [10,0,0,0, 20,0,0,0, 30,0,0,0, 40,0,0,0] is
\* {10, 20, 30, 40}.
C10_FixedRoundTrip ==
    (family \in FixedFamilies /\ pc \in {"fixed_parsed", "fixed_done", "panic"}) =>
        /\ res.ok
        /\ pc # "panic"
        /\ family = "cache_info" =>
              /\ Len(rec) = 16
              /\ res.val = [ifa_preferred |-> FieldAt(rec, 0, 4),
                            ifa_valid |-> FieldAt(rec, 4, 4),
                            cstamp |-> FieldAt(rec, 8, 4),
                            tstamp |-> FieldAt(rec, 12, 4)]
              /\ rec = <<10, 0, 0, 0, 20, 0, 0, 0, 30, 0, 0, 0, 40, 0, 0, 0>> =>
                    res.val = [ifa_preferred |-> Num(10, 4), ifa_valid |-> Num(20, 4),
                               cstamp |-> Num(30, 4), tstamp |-> Num(40, 4)]
        /\ family = "icmp6" =>
              /\ Len(rec) = 56
              /\ res.val = [num |-> FieldAt(rec, 0, 8),
                            in_msgs |-> FieldAt(rec, 8, 8),
                            in_errors |-> FieldAt(rec, 16, 8),
                            out_msgs |-> FieldAt(rec, 24, 8),
                            out_errors |-> FieldAt(rec, 32, 8),
                            csum_errors |-> FieldAt(rec, 40, 8),
                            rate_limit_host |-> FieldAt(rec, 48, 8)]
        /\ pc = "fixed_done" => out = rec

C10_Witness ==
    /\ family = "cache_info"
    /\ pc = "fixed_done"
    /\ rec = <<10, 0, 0, 0, 20, 0, 0, 0, 30, 0, 0, 0, 40, 0, 0, 0>>
    /\ res.val.cstamp = Num(30, 4)
    /\ res.val.tstamp = Num(40, 4)
    /\ out = rec

\* the record that the emitter wrote at offset off of b: its kind and value
RecordAt(b, off) ==
    LET r == SubSeq(b, off + 1, Len(b))
    IN  [kind |-> NlaBuffer_raw_type(r), value |-> NlaBuffer_value(r)]

TcInnerValues(kind) ==
    {Other(d) : d \in DefaultNlaSamples({StrangeKind})}
    \cup (IF kind = TcQdiscIngress_KIND THEN {}
          ELSE {[tag |-> (IF kind = TcQdiscFqCodel_KIND THEN "Target" ELSE "ClassId"),
                 v |-> x] : x \in U32Samples})

TcValues(kind) ==
    IF kind \in TcKnownKinds
    THEN {[tag |-> TcVariant(kind), v |-> x] : x \in TcInnerValues(kind)}
    ELSE {Other(d) : d \in DefaultNlaSamples({TCA_OPTIONS, StrangeKind})}

EmitFamilies == AttrFamilies \cup TcFamilies
EmitValues(f) == IF f \in AttrFamilies THEN Values(f) ELSE TcValues(f)

\* what a buffer may hold before the call
Fills(n) == {Fresh(n), Zeros(n)}
Complement(b) == [i \in 1..Len(b) |-> 255 - b[i]]

InitEmit ==
    /\ family \in EmitFamilies
    /\ val \in EmitValues(family)
    /\ rec \in Fills(Nla_value_len(family, val))
    /\ pc = "emit_value"
    /\ res = Err
    /\ out = <<>>
    /\ pieces = <<>>
    /\ logged = <<>>
    /\ cursor = 0
    /\ max_level = LevelFilter_Off

EmitValueExact ==
    /\ pc = "emit_value"
    /\ LET e == Nla_emit_value(family, val, rec)
       IN  /\ pc' = IF e.panic THEN "panic" ELSE "value_emitted"
           /\ out' = e.buf
    /\ UNCHANGED <<family, val, rec, res, pieces, logged, cursor, max_level>>

NextEmit == EmitValueExact

SpecEmit == InitEmit /\ [][NextEmit]_vars

\* C12: emit_value of any value, on a buffer of exactly value_len() bytes,
\* does not panic, leaves a buffer of the same length, and writes every byte
\* of it: the result does not depend on what the buffer held.
C12_EmissionCannotFail ==
    /\ pc # "panic"
    /\ pc = "value_emitted" =>
          /\ Len(rec) = Nla_value_len(family, val)
          /\ Len(out) = Len(rec)
          /\ Nla_emit_value(family, val, Complement(rec)) = Written(out)

\* a permanent hardware address of 5 bytes, emitted over a buffer of 5 bytes
C12_Witness ==
    /\ family = "bond_port"
    /\ pc = "value_emitted"
    /\ val.tag = "PermHwaddr"
    /\ Len(val.v) = 5
    /\ rec = Fresh(5)
    /\ out = val.v

\* the width the encoding of a vxlan address or port-range kind requires
AddressWidth(k) == IF k \in {16, 17} THEN 16 ELSE 4
AddressTag(k) ==
    CASE k = 2 -> "Group" [] k = 4 -> "Local" [] k = 16 -> "Group6" [] k = 17 -> "Local6"
      [] k = 10 -> "PortRange"

\* C13: a vxlan Group or Local record (kinds 2, 4) parses exactly when its
\* value has 4 bytes, a Group6 or Local6 record (kinds 16, 17) exactly when
\* it has 16, a PortRange record (kind 10) exactly when it has 4; any other
\* length is a decode failure, and a parsed address is the value, whole.
C13_AddressWidth ==
    (family = "vxlan" /\ pc \in {"parsed", "done", "reparsed"}
       /\ NlaBuffer_kind(rec) \in {2, 4, 16, 17, 10}) =>
        LET k == NlaBuffer_kind(rec)
            v == NlaBuffer_value(rec)
        IN  /\ res.ok <=> Len(v) = AddressWidth(k)
            /\ res.ok =>
                  /\ res.val.tag = AddressTag(k)
                  /\ k # 10 => res.val.v = v
                  /\ k = 10 => res.val.v = <<256 * v[1] + v[2], 256 * v[3] + v[4]>>

\* a Group record of 5 bytes and a Local6 record of 15 bytes are turned down
C13_Witness ==
    /\ family = "vxlan"
    /\ pc = "parsed"
    /\ \/ NlaBuffer_kind(rec) = IFLA_VXLAN_GROUP /\ IFLA_VXLAN_GROUP = 2
            /\ Len(NlaBuffer_value(rec)) = 5
       \/ NlaBuffer_kind(rec) = IFLA_VXLAN_LOCAL6 /\ IFLA_VXLAN_LOCAL6 = 17
            /\ Len(NlaBuffer_value(rec)) = 15
    /\ ~res.ok

(***************************************************************************)
(* The iterator harness: the loop of VecTcOption::parse_with_param and of  *)
(* Vec<LinkAttribute>::parse_with_param, `for nla in NlasIterator::new(..)`*)
(* with `nla?` and the attribute's `parse..?` in its body, one turn at a   *)
(* time, and then once more over the same blob from scratch (iter ->       *)
(* iter_end, twice).  res holds the items next() has yielded, the          *)
(* attributes pushed, how the loop ended, and the same of the pass before. *)
(***************************************************************************)
Passes == 2           \* how many times the same blob is iterated

IterFamilies == {TcFilterU32_KIND, "link"}

NoPass == [yielded |-> <<>>, nlas |-> <<>>, outcome |-> "running"]

InitIter ==
    /\ family \in IterFamilies
    /\ \E recs \in PieceSeqs(family), tail \in Tails, trim \in BOOLEAN :
          /\ trim => /\ tail = <<>>
                     /\ recs # <<>>
                     /\ recs[Len(recs)].fault = "none"
                     /\ Padding(Len(recs[Len(recs)].value)) > 0
          /\ pieces = [recs |-> recs, tail |-> tail, trim |-> trim]
    /\ rec = Blob(pieces)
    /\ cursor = 0
    /\ res = [pass |-> 1, now |-> NoPass, before |-> NoPass]
    /\ pc = "iter"
    /\ val = Nil
    /\ out = <<>>
    /\ logged = <<>>
    /\ max_level = LevelFilter_Off

\* one turn of the loop: next(); at None the loop is over and the list is
\* returned; at an Err item `nla?` returns the error; at an Ok item the
\* attribute is parsed, `?` returns its error, or the attribute is pushed
IterNext ==
    /\ pc = "iter"
    /\ LET n == NlasIterator_next(rec, cursor)
           r == Attr_parse(family, n.item.buf)
           got == Append(res.now.yielded, n.item)
       IN  /\ cursor' = n.position
           /\ IF ~n.some
              THEN /\ pc' = "iter_end"
                   /\ res' = [res EXCEPT !.now.outcome = "ok"]
              ELSE IF ~n.item.ok
              THEN /\ pc' = "iter_end"
                   /\ res' = [res EXCEPT !.now.yielded = got, !.now.outcome = "nla"]
              ELSE IF ~r.ok
              THEN /\ pc' = "iter_end"
                   /\ res' = [res EXCEPT !.now.yielded = got, !.now.outcome = "attribute"]
              ELSE /\ pc' = "iter"
                   /\ res' = [res EXCEPT !.now.yielded = got,
                                         !.now.nlas = Append(res.now.nlas, r.val)]
    /\ UNCHANGED <<family, val, rec, out, pieces, logged, max_level>>

\* the same call on the same blob again: a new iterator, a new list
IterRestart ==
    /\ pc = "iter_end"
    /\ res.pass < Passes
    /\ cursor' = 0
    /\ res' = [pass |-> res.pass + 1, now |-> NoPass, before |-> res.now]
    /\ pc' = "iter"
    /\ UNCHANGED <<family, val, rec, out, pieces, logged, max_level>>

NextIter == IterNext \/ IterRestart

\* a call that has begun runs on: the loop takes its next turn
SpecIter == InitIter /\ [][NextIter]_vars /\ WF_vars(NextIter)

OkCount(items) == Cardinality({i \in 1..Len(items) : items[i].ok})

\* what C14 says of every state of a pass
IteratorBounded ==
    (pc \in {"iter", "iter_end"}) =>
        LET items == res.now.yielded
            all == NlasIterator_new(rec)
            L == Len(rec)
            n == Len(items)
            sound == \A i \in 1..Len(pieces.recs) :
                        pieces.recs[i].fault = "none" /\ ~AttrFaultAt(family, pieces, i)
            whole == ParseLoop(family, all, 1, <<>>)
        IN  /\ 4 * OkCount(items) <= L
            /\ n <= (L \div 4) + 1
            /\ n <= Len(all)
            /\ items = SubSeq(all, 1, n)
            /\ \A i \in 1..n : items[i].ok =>
                  /\ i < n => items[i + 1].pos >= items[i].pos + 4
                  /\ i = n => cursor >= items[i].pos + 4
            /\ \A i \in 1..n : ~items[i].ok => i = n /\ cursor = L /\ pc = "iter_end"
            /\ pc = "iter" => res.now.outcome = "running" /\ Len(res.now.nlas) = n
            /\ pc = "iter_end" =>
                  /\ res.now.outcome = IF whole.ok THEN "ok" ELSE whole.why
                  /\ whole.ok => res.now.nlas = whole.val
                  /\ ~whole.ok => n = whole.at
                  /\ res.now.outcome = "ok" =>
                        /\ cursor >= L
                        /\ items = all
                        /\ \A i \in 1..n : items[i].ok
                  /\ res.now.outcome = "nla" => ~items[n].ok
                  /\ (sound /\ pieces.tail = <<>>) =>
                        /\ res.now.outcome = "ok"
                        /\ n = Len(pieces.recs)
                  /\ (sound /\ pieces.tail # <<>>) =>
                        /\ res.now.outcome = "nla"
                        /\ n = Len(pieces.recs) + 1
                        /\ L - items[n].pos \in 1..3
                  /\ res.pass = Passes => res.now = res.before

\* C14: over a blob of L bytes the iterator yields at most L/4 records, each
\* at least 4 bytes after the one before it, and then ends; it ends without
\* an error when nothing is left after the last record, and with one error
\* when 1 to 3 bytes are left; a second pass over the same blob yields the
\* same items and ends the same way.
C14_IteratorTerminates ==
    /\ []IteratorBounded
    /\ <>(pc = "iter_end" /\ res.pass = Passes)

\* two records and three stray bytes: the second pass has ended as the
\* first, at the error the iterator yields for the stray bytes
C14_Witness ==
    /\ pc = "iter_end"
    /\ res.pass = 2
    /\ Len(pieces.recs) = 2
    /\ pieces.tail = <<9, 9, 9>>
    /\ Len(res.now.yielded) = 3
    /\ res.now.yielded[1].ok
    /\ res.now.yielded[2].ok
    /\ ~res.now.yielded[3].ok
    /\ res.now.outcome = "nla"
    /\ res.before = res.now

(***************************************************************************)
(* The concurrent harness: each thread parses a record of its own and      *)
(* emits what it parsed into a buffer of its own; the calls of the threads *)
(* interleave.  Here pc, family, rec, res and out are functions of the     *)
(* thread; logged is the one logger of the process and max_level its one   *)
(* level filter, set before the threads start.  A call of parse is two     *)
(* steps, since the calls of other threads fit between its log::warn! and  *)
(* its return.                                                             *)
(***************************************************************************)
NThreads == 2         \* how many threads call the codec at the same time

Threads == 1..NThreads

\* (family, record) pairs a thread may be handed
ThreadInputs ==
    {<<f, WireRecord(IFLA_IPVLAN_MODE, BytesLE(x, 2), 0)>> :
        f \in {"ipvlan", "ipvtap"}, x \in {IPVLAN_MODE_L3, 3, 9}}
    \cup {<<"vxlan", WireRecord(IFLA_VXLAN_ID, BytesLE(42, 4), 0)>>,
          <<"bond_port", WireRecord(IFLA_BOND_PORT_STATE, <<1>>, 0)>>}

InitConc ==
    /\ \E in \in [Threads -> ThreadInputs] :
          /\ family = [t \in Threads |-> in[t][1]]
          /\ rec = [t \in Threads |-> in[t][2]]
    /\ pc = [t \in Threads |-> "ready"]
    /\ res = [t \in Threads |-> Err]
    /\ out = [t \in Threads |-> <<>>]
    /\ val = Nil
    /\ pieces = <<>>
    /\ logged = <<>>
    /\ cursor = 0
    /\ max_level \in LevelFilters

\* thread t's call of parse, up to and with its log::warn!: what the call
\* hands to the logger, before it returns
ParseCall(t) ==
    /\ pc[t] = "ready"
    /\ NlaBuffer_check(rec[t])
    /\ logged' = logged \o Nla_parse_logs(family[t], rec[t], max_level)
    /\ pc' = [pc EXCEPT ![t] = "in_parse"]
    /\ UNCHANGED <<family, val, rec, res, out, pieces, cursor, max_level>>

\* thread t's call of parse returns its result
ParseReturn(t) ==
    /\ pc[t] = "in_parse"
    /\ res' = [res EXCEPT ![t] = Nla_parse(family[t], rec[t])]
    /\ pc' = [pc EXCEPT ![t] = "returned"]
    /\ UNCHANGED <<family, val, rec, out, pieces, logged, cursor, max_level>>

\* thread t's call of emit on what it parsed
EmitCall(t) ==
    /\ pc[t] = "returned"
    /\ res[t].ok
    /\ LET e == Nla_emit(family[t], res[t].val, Fresh(Nla_buffer_len(family[t], res[t].val)))
       IN  /\ pc' = [pc EXCEPT ![t] = IF e.panic THEN "panic" ELSE "emitted"]
           /\ out' = [out EXCEPT ![t] = e.buf]
    /\ UNCHANGED <<family, val, rec, res, pieces, logged, cursor, max_level>>

NextConc == \E t \in Threads : ParseCall(t) \/ ParseReturn(t) \/ EmitCall(t)

SpecConc == InitConc /\ [][NextConc]_vars

\* C15 as stated: whatever the interleaving, a call that has returned has
\* the result it has when run alone, and nothing outside the returned values
\* has changed: nothing was handed to the logger of the process, also not by
\* the parse of an unrecognised IpVlanMode.
C15_SideEffectFree ==
    /\ \A t \in Threads :
          /\ pc[t] \in {"returned", "emitted"} => res[t] = Nla_parse(family[t], rec[t])
          /\ pc[t] = "emitted" => out[t] = rec[t]
    /\ logged = <<>>

\* thread 1 parsed the mode 3 and thread 2 the mode 9, and the logger was
\* handed the warning of thread 2 first
C15_Witness ==
    /\ \A t \in Threads : pc[t] \in {"returned", "emitted"}
    /\ res[1].val = [tag |-> "Mode", v |-> OtherCode(3)]
    /\ res[2].val = [tag |-> "Mode", v |-> OtherCode(9)]
    /\ Len(logged) = 2
    /\ logged[1].d = 9
    /\ logged[2].d = 3

BoolByte(b) == IF b THEN 1 ELSE 0

\* C16: a one-byte boolean vxlan attribute (Learning, Proxy, Rsc, L2Miss,
\* L3Miss, CollectMetadata, UDPCsum, UDPZeroCsumTX, UDPZeroCsumRX, RemCsumTX,
\* RemCsumRX, TtlInherit, Vnifilter, Localbypass) parses to false from the
\* byte 0 and to true from every byte 1..255; its value_len() is 1 and its
\* emission is the byte 0 for false and 1 for true, so that a parsed byte b
\* other than 0 is emitted again as 1.
C16_BooleanEncoding ==
    /\ (family = "vxlan" /\ pc \in {"parsed", "done"}
          /\ NlaBuffer_kind(rec) \in VxlanBoolKinds /\ Len(NlaBuffer_value(rec)) = 1) =>
          LET b == NlaBuffer_value(rec)[1]
          IN  /\ res.ok
              /\ res.val.tag \in
                    {"Learning", "Proxy", "Rsc", "L2Miss", "L3Miss", "CollectMetadata",
                     "UDPCsum", "UDPZeroCsumTX", "UDPZeroCsumRX", "RemCsumTX", "RemCsumRX",
                     "TtlInherit", "Vnifilter", "Localbypass"}
              /\ InfoVxlan_kind(res.val) = NlaBuffer_kind(rec)
              /\ res.val.v = (b # 0)
              /\ InfoVxlan_value_len(res.val) = 1
              /\ pc = "done" =>
                    /\ NlaBuffer_length(out) = 5
                    /\ NlaBuffer_kind(out) = NlaBuffer_kind(rec)
                    /\ NlaBuffer_value(out) = <<IF b = 0 THEN 0 ELSE 1>>
    /\ (family = "vxlan" /\ pc \in {"emitted", "reparsed"} /\ val.tag \in VxlanBoolTags) =>
          /\ InfoVxlan_value_len(val) = 1
          /\ NlaBuffer_length(rec) = 5
          /\ NlaBuffer_value(rec) = <<BoolByte(val.v)>>

\* a Proxy record holding the byte 200 parsed to Proxy(true) and emitted as 1
C16_Witness ==
    /\ family = "vxlan"
    /\ pc = "done"
    /\ NlaBuffer_kind(rec) = IFLA_VXLAN_PROXY
    /\ NlaBuffer_value(rec) = <<200>>
    /\ res.val = [tag |-> "Proxy", v |-> TRUE]
    /\ NlaBuffer_value(out) = <<1>>

\* C17: Gbp (kind 23), Gpe (27) and RemCsumNoPartial (24) have value_len() 0
\* and emit no value byte, whichever boolean they hold; a record of one of
\* these kinds parses to the variant holding true whatever its value bytes
\* are, and however many.
C17_PresenceOnly ==
    /\ (family = "vxlan" /\ pc \in {"parsed", "done", "reparsed"}
          /\ NlaBuffer_kind(rec) \in {23, 24, 27}) =>
          /\ res.ok
          /\ res.val.tag = (CASE NlaBuffer_kind(rec) = 23 -> "Gbp"
                              [] NlaBuffer_kind(rec) = 27 -> "Gpe"
                              [] NlaBuffer_kind(rec) = 24 -> "RemCsumNoPartial")
          /\ res.val.v = TRUE
          /\ pc = "done" => out = BytesLE(4, 2) \o BytesLE(NlaBuffer_kind(rec), 2)
    /\ (family = "vxlan" /\ pc \in {"value", "emitted", "reparsed"}
          /\ val.tag \in {"Gbp", "Gpe", "RemCsumNoPartial"}) =>
          /\ InfoVxlan_value_len(val) = 0
          /\ InfoVxlan_emit_value(val, <<>>) = Written(<<>>)
          /\ pc # "value" =>
                /\ rec = BytesLE(4, 2) \o BytesLE(InfoVxlan_kind(val), 2)
                /\ InfoVxlan_kind(val) \in {23, 24, 27}

\* a Gpe record with 5 value bytes parsed to Gpe(true) and emitted with none
C17_Witness ==
    /\ family = "vxlan"
    /\ pc = "done"
    /\ NlaBuffer_kind(rec) = IFLA_VXLAN_GPE
    /\ Len(NlaBuffer_value(rec)) = 5
    /\ res.val = [tag |-> "Gpe", v |-> TRUE]
    /\ Len(out) = 4

\* C18: the kind strings under which a container is split into records are
\* the kind strings that give a record a typed option; which option a record
\* becomes depends on the kind string alone, not on the record's kind code;
\* so Other occurs in a returned list only as the one element of a list
\* parsed under an unknown kind string, and a list parsed under a known kind
\* string holds only that driver's variant.
C18_DispatchConsistent ==
    (family \in TcFamilies /\ Parsed) =>
        LET items == NlasIterator_new(Section(family, rec))
            split == res.ok => Len(res.val) = Len(items)
            whole == res.ok /\ Len(res.val) = 1 /\ res.val[1].v.value = Section(family, rec)
        IN  /\ \A i \in 1..Len(items) : items[i].ok =>
                  LET r == TcOption_parse_with_param(items[i].buf, family)
                  IN  r.ok =>
                        /\ (r.val.tag # "Other") <=> (family \in TcKnownKinds)
                        /\ \A j \in 1..Len(items) : items[j].ok =>
                              LET q == TcOption_parse_with_param(items[j].buf, family)
                              IN  q.ok => q.val.tag = r.val.tag
            /\ family \in TcKnownKinds => split
            /\ family \notin TcKnownKinds => whole
            /\ res.ok =>
                  \A i \in 1..Len(res.val) :
                      /\ res.val[i].tag = "Other" =>
                            family \notin TcKnownKinds /\ Len(res.val) = 1
                      /\ family \in TcKnownKinds => res.val[i].tag = TcVariant(family)

\* a u32 container: a class-id record and a record of a kind code the u32
\* options do not know both become U32 options
C18_Witness ==
    /\ family = TcFilterU32_KIND
    /\ pc = "parsed_all"
    /\ res.ok
    /\ Len(res.val) = 2
    /\ pieces.recs[1].ty = TCA_CLASSID
    /\ pieces.recs[2].ty = StrangeKind
    /\ res.val[1] = [tag |-> "U32", v |-> [tag |-> "ClassId", v |-> Num(42, 4)]]
    /\ res.val[2].tag = "U32"
    /\ res.val[2].v.tag = "Other"

====
